---- MODULE Spec2Model ----
(***************************************************************************)
(* Model of the pyghmi IPMI client session layer                           *)
(* (src/pyghmi/ipmi/private/simplesession.py, class Session).              *)
(*                                                                         *)
(* The Session object is one record (variable session); every method is an *)
(* operator that maps a "world" record (the object's fields, the packets   *)
(* put on the wire, the callbacks invoked so far) to the world after the   *)
(* call.  The code is synchronous but re-entrant: raw_command() spins the  *)
(* event loop until its reply arrives, so a packet handler can be          *)
(* suspended in the middle.  The variable stack holds the suspended        *)
(* frames, innermost first; an action runs one event (a packet arrives, a  *)
(* timer fires, the caller calls in) up to the next suspension point.      *)
(***************************************************************************)
EXTENDS Integers, Sequences, FiniteSets, TLC

VARIABLES
    session,    \* the fields of the Session object
    wire,       \* every packet handed to socket.sendto, in order
    events,     \* the callbacks invoked and errors raised by the latest step
    logons,     \* what the caller's onlogon callback received, in order
    stack,      \* suspended frames of the call stack, innermost first
    lastpkt,    \* the inbound packet processed by the latest step
    laststep,   \* name of the latest step taken
    limits,     \* what is left of the bounds of the behaviour
    console,    \* the fields of the Console object on top of the session
    sdr         \* the SDR reader: its fields and the locals of get_sdr

vars == <<session, wire, events, logons, stack, lastpkt, laststep, limits,
          console, sdr>>

---------------------------------------------------------------------------
(* Bounds of the model *)
MaxWire == 7        \* transmitted packets per behaviour
MaxTimeouts == 1    \* expiries of the retry timer per behaviour
MaxCalls == 2       \* calls the caller makes per behaviour
MaxDepth == 2       \* suspended wait frames
MaxPending == 2     \* length of pendingpayloads

(* Program constants *)
LocalSidBase == 2017673555
InitialTimeout == 5            \* initialtimeout = 0.5 s, in tenths of a second
InitMaxTimeout == 30           \* self.maxtimeout = 3
ConfirmedMaxTimeout == 60      \* self.maxtimeout = 6
TimeoutStep == 10              \* self.timeout += 1
LogonTries == 5
TabooRounds == 16
SeqIncrementMax == 7

(* A 32-bit unsigned wire field, kept as its two 16-bit halves *)
U32(n) == [hi |-> n \div 65536, lo |-> n % 65536]
Lt32(a, b) == a.hi < b.hi \/ (a.hi = b.hi /\ a.lo < b.lo)
MaxU32 == [hi |-> 65535, lo |-> 65535]       \* 0xffffffff
NoSeq == [hi |-> -1, lo |-> -1]              \* the attribute is not set

(* 0.5 * random.random(), in tenths of a second: some value in [0, 0.5) *)
Jitter == {2}

---------------------------------------------------------------------------
(* Values standing for Python's None in fields that hold structured data *)
NoPayload == [t |-> "None"]
NoKey == [t |-> "None"]
NoResp == [t |-> "None"]
NoConsole == [t |-> "None"]
NoSdr == [pc |-> "None"]

(* Credentials given to the constructor, and what a peer might use instead *)
Password == [pw |-> "password"]
WrongPassword == [pw |-> "wrong"]
WrongKey == [pw |-> "wrongkey"]
UserId == "admin"

(* hmac.new(key, data, hashlib).digest(): a one-way function, kept symbolic.
   Two digests are equal exactly when key, data and hash are equal. *)
Hmac(key, data, hashlib) == [h |-> key, d |-> data, lib |-> hashlib]

(* digest()[:n] *)
Trunc(digest, n) == [dg |-> digest, n |-> n]

(* hashlib.md5(password + sessdata + payload + seqbytes + password) *)
Md5(password, sid, payload, seq) ==
    [md5 |-> password, sid |-> sid, p |-> payload, seq |-> seq]

Bit(x, n) == ((x \div (2 ^ n)) % 2) = 1

---------------------------------------------------------------------------
(* The world a method works on: the Session fields plus the outputs of the
   run and the bookkeeping of the run itself:
     wire     : packets sent so far
     ev       : callbacks invoked by this run
     nf       : frames suspended by this run, innermost first
     exc      : the exception in flight ("None" when there is none)
     ret      : the value the method just left returned
     rnd      : the value random.random() yields during this run
     late     : whether the clock has passed logoutexpiry
     con      : the Console whose payload handler is the session's
                sol_handler (NoConsole when the session has no Console) *)
World(rnd, late) ==
    session @@ [wire |-> wire, ev |-> <<>>, nf |-> <<>>, exc |-> "None",
                why |-> "None", ret |-> [t |-> "None"], rnd |-> rnd,
                late |-> late, con |-> console]

SessionFields == DOMAIN session

Raise(w, name) == [w EXCEPT !.exc = name]

(* f(w) unless an exception is in flight *)
Bind(w, f(_)) == IF w.exc # "None" THEN w ELSE f(w)

(* f applied to a value that is computed once *)
With(v, f(_)) == f(v)

Event(w, e, a, n) == [w EXCEPT !.ev = Append(@, [e |-> e, a |-> a, n |-> n])]

(* constants.payload_types.values() *)
PayloadTypeValues == {0, 1, 16, 17, 18, 19, 20, 21}
PT_ipmi == 0
PT_sol == 1
PT_openreq == 16
PT_openrsp == 17
PT_rakp1 == 18
PT_rakp2 == 19
PT_rakp3 == 20
PT_rakp4 == 21

(* _xmit_packet without the advance of the sequence number *)
XmitPacketSameSequence(w, packet) == [w EXCEPT !.wire = Append(@, packet)]

(* Session._xmit_packet: the sequence number is advanced after the packet
   was built, unless it is the special value 0 *)
XmitPacket(w, packet) ==
    [w EXCEPT !.sequencenumber = IF @ # 0 THEN @ + 1 ELSE @,
              !.wire = Append(@, packet)]

(* send_payload without the test of lastpayload: a payload is transmitted
   whether or not another one awaits its answer *)
SendPayloadUnqueued(w, payload, payload_type, retry) ==
    LET ptype == IF payload_type = -1 THEN w.last_payload_type
                 ELSE payload_type
        pl == IF payload = NoPayload THEN w.lastpayload ELSE payload
    IN  With(IF retry
             THEN [w EXCEPT !.lastpayload = pl, !.last_payload_type = ptype]
             ELSE w,
             LAMBDA w1 :
        IF pl = NoPayload \/ ptype = -1 THEN Raise(w1, "TypeError")
        ELSE IF w.ipmiversion = 20 /\ ptype \notin PayloadTypeValues
        THEN Raise(w1, "NotImplementedError")
        ELSE XmitPacket(w1,
                 [ver |-> w.ipmiversion,
                  authtype |-> w.authtype,
                  ptype |-> ptype,
                  integ |-> w.integrityalgo # 0,
                  conf |-> w.confalgo # 0,
                  sid |-> w.sessionid,
                  seq |-> w.sequencenumber,
                  key |-> IF w.integrityalgo # 0 /\ w.ipmiversion = 20
                          THEN w.k1 ELSE NoKey,
                  payload |-> pl,
                  ctx |-> w.sessioncontext]))

(* Session.send_payload; payload = NoPayload is the call send_payload()
   that retransmits lastpayload, payload_type = -1 is payload_type=None *)
SendPayload(w, payload, payload_type, retry) ==
    IF payload # NoPayload /\ w.lastpayload # NoPayload
    THEN [w EXCEPT !.pendingpayloads =
              Append(@, [payload |-> payload, ptype |-> payload_type,
                         retry |-> retry])]
    ELSE
    LET ptype == IF payload_type = -1 THEN w.last_payload_type
                 ELSE payload_type
        pl == IF payload = NoPayload THEN w.lastpayload ELSE payload
    IN  With(IF retry
             THEN [w EXCEPT !.lastpayload = pl, !.last_payload_type = ptype]
             ELSE w,
             LAMBDA w1 :
        IF pl = NoPayload \/ ptype = -1 THEN Raise(w1, "TypeError")
        ELSE IF w.ipmiversion = 20 /\ ptype \notin PayloadTypeValues
        THEN Raise(w1, "NotImplementedError")
        ELSE XmitPacket(w1,
                 [ver |-> w.ipmiversion,
                  authtype |-> w.authtype,
                  ptype |-> ptype,
                  integ |-> w.integrityalgo # 0,
                  conf |-> w.confalgo # 0,
                  sid |-> w.sessionid,
                  seq |-> w.sequencenumber,
                  key |-> IF w.integrityalgo # 0 /\ w.ipmiversion = 20
                          THEN w.k1 ELSE NoKey,
                  payload |-> pl,
                  ctx |-> w.sessioncontext]))

(* Session._add_request_entry / _lookup_request_entry /
   _remove_request_entry on the list request_entry *)
LookupRequestEntry(w, entry) ==
    \E i \in 1..Len(w.request_entry) : w.request_entry[i] = entry

AddRequestEntry(w, entry) ==
    IF LookupRequestEntry(w, entry) THEN w
    ELSE [w EXCEPT !.request_entry = Append(@, entry)]

RemoveRequestEntry(w, entry) ==
    IF LookupRequestEntry(w, entry)
    THEN LET i == CHOOSE j \in 1..Len(w.request_entry) :
                      /\ w.request_entry[j] = entry
                      /\ \A k \in 1..(j - 1) : w.request_entry[k] # entry
         IN  [w EXCEPT !.request_entry =
                 SubSeq(@, 1, i - 1) \o SubSeq(@, i + 1, Len(@))]
    ELSE w

---------------------------------------------------------------------------
(* The taboo loop of Session._make_ipmi_payload (src lines 367-377): skip a
   seqlun that is taboo for this (netfn, command), at most seqincrement
   times.  The test reads the key (netfn, command, seqlun), the decrement
   writes the key (expectednetfn, command, seqlun); a missing key is a
   KeyError. *)
RECURSIVE TabooSkip(_, _, _, _)
TabooSkip(w, netfn, command, seqincrement) ==
    LET rkey == <<netfn, command, w.seqlun>>
        wkey == <<w.expectednetfn, command, w.seqlun>>
    IN  IF /\ rkey \in DOMAIN w.tabooseq
           /\ w.tabooseq[rkey] # 0
           /\ seqincrement # 0
        THEN IF wkey \notin DOMAIN w.tabooseq THEN Raise(w, "KeyError")
             ELSE TabooSkip(
                    [w EXCEPT !.tabooseq = [@ EXCEPT ![wkey] = @ - 1],
                              !.seqlun = (w.seqlun + 1) % 64],
                    netfn, command, seqincrement - 1)
        ELSE w

(* Session._make_bridge_request_msg: records the entry of the outer
   'send message' (netfn application + 1, seqlun, 0x34) *)
IPMI_SEND_MESSAGE_CMD == 52
NetfnApplication == 6
MakeBridgeRequestMsg(w) ==
    AddRequestEntry(w, <<NetfnApplication + 1, w.seqlun,
                         IPMI_SEND_MESSAGE_CMD>>)

(* The payload bytes Session._make_ipmi_payload returns *)
IpmiPayload(w, netfn, command, bridge, data) ==
    [t |-> "ipmi", netfn |-> netfn, cmd |-> command, seqlun |-> w.seqlun,
     data |-> data, bridge |-> bridge]

(* Session._make_ipmi_payload, the state change *)
MakeIpmiPayload(w, netfn, command, bridge, data) ==
    Bind(Bind(TabooSkip([w EXCEPT !.expectedcmd = command,
                                  !.expectednetfn = netfn + 1],
                        netfn, command, SeqIncrementMax),
              LAMBDA x : IF bridge THEN MakeBridgeRequestMsg(x) ELSE x),
         LAMBDA x :
            AddRequestEntry(x, <<x.expectednetfn, x.seqlun, command>>))

(* Session._send_ipmi_net_payload (client mode) *)
SendIpmiNetPayload(w, netfn, command, data, bridge, retry) ==
    Bind(MakeIpmiPayload(w, netfn, command, bridge, data),
         LAMBDA x :
            SendPayload(x, IpmiPayload(x, netfn, command, bridge, data),
                        PT_ipmi, retry))

(* Session._initsession *)
InitSession(w) ==
    [w EXCEPT !.localsid = LocalSidBase,
              !.confalgo = 0,
              !.integrityalgo = 0,
              !.attemptedhash = 256,
              !.currhashlib = 0,
              !.currhashlen = 0,
              !.k1 = NoKey,
              !.rmcptag = 1,
              !.lastpayload = NoPayload,
              !.ipmicallback = "None",
              !.sessioncontext = "None",
              !.sequencenumber = 0,
              !.sessionid = 0,
              !.authtype = 0,
              !.ipmiversion = 15,
              !.timeout = InitialTimeout + w.rnd,
              !.logoutexpiry = TRUE,
              !.seqlun = 0,
              !.logging = TRUE,
              !.logged = 0,
              !.sockaddr = "None",
              !.tabooseq = <<>>,
              !.ipmi15only = 0,
              !.sol_handler = FALSE]

(* Session._get_channel_auth_cap *)
GetChannelAuthCap(w) ==
    SendIpmiNetPayload([w EXCEPT !.ipmicallback = "_got_channel_auth_cap"],
                       6, 56,
                       <<IF w.ipmi15only # 0 THEN 14 ELSE 142, w.privlevel>>,
                       FALSE, TRUE)

(* Session.login *)
Login(w) ==
    GetChannelAuthCap(InitSession([w EXCEPT !.logontries = LogonTries]))

(* Session._relog *)
Relog(w) ==
    GetChannelAuthCap([InitSession(w) EXCEPT !.logontries = @ - 1])

(* Session._open_rmcpplus_request *)
OpenRmcpplusRequest(w) ==
    With([w EXCEPT !.authtype = 6,
                   !.localsid = @ + 1,
                   !.rmcptag = @ + 1],
         LAMBDA w1 :
        IF w1.rmcptag > 255 THEN Raise(w1, "ValueError")
        ELSE SendPayload(
                 [w1 EXCEPT
                     !.currhashlib = IF w.attemptedhash = 1 THEN 1 ELSE 256,
                     !.currhashlen = IF w.attemptedhash = 1 THEN 12 ELSE 16,
                     !.sessioncontext = "OPENSESSION",
                     !.lastpayload = NoPayload],
                 [t |-> "open", tag |-> w1.rmcptag, localsid |-> w1.localsid,
                  hash |-> IF w.attemptedhash = 1 THEN 1 ELSE 256],
                 PT_openreq, TRUE))

(* nameonly | privlevel, the role byte of RAKP1 / RAKP2 / RAKP3 *)
NameOnly == 16
Role(w) == NameOnly + w.privlevel

(* Session._send_rakp1; os.urandom(16) yields a value never drawn before *)
SendRakp1(w) ==
    With([w EXCEPT !.rmcptag = @ + 1,
                   !.urandom = @ + 1,
                   !.randombytes = w.urandom + 1,
                   !.sessioncontext = "EXPECTINGRAKP2"],
         LAMBDA w1 :
        IF w1.rmcptag > 255 THEN Raise(w1, "ValueError")
        ELSE SendPayload(w1,
                 [t |-> "rakp1", tag |-> w1.rmcptag,
                  psid |-> w.pendingsessionid, rand |-> w1.randombytes,
                  role |-> Role(w), user |-> UserId],
                 PT_rakp1, TRUE))

(* The key-exchange authentication code carried by RAKP3 *)
Rakp3AuthCode(w) ==
    Hmac(w.password,
         [rrand |-> w.remoterandombytes, lsid |-> w.localsid,
          role |-> Role(w), user |-> UserId],
         w.currhashlib)

(* Session._send_rakp3 *)
SendRakp3(w) ==
    With([w EXCEPT !.rmcptag = @ + 1],
         LAMBDA w1 :
        IF w1.rmcptag > 255 THEN Raise(w1, "ValueError")
        ELSE SendPayload(w1,
                 [t |-> "rakp3", tag |-> w1.rmcptag,
                  psid |-> w.pendingsessionid, auth |-> Rakp3AuthCode(w)],
                 PT_rakp3, TRUE))

(* Session._get_session_challenge *)
GetSessionChallenge(w) ==
    SendIpmiNetPayload([w EXCEPT !.ipmicallback = "_got_session_challenge"],
                       6, 57, <<2>>, FALSE, TRUE)

(* Session._activate_session *)
ActivateSession(w, challenge) ==
    SendIpmiNetPayload([w EXCEPT !.ipmicallback = "_activated_session"],
                       6, 58, <<2, 4, challenge, 1>>, FALSE, TRUE)

---------------------------------------------------------------------------
(* Suspension.  A method that reaches a wait loop appends a wait frame to
   w.nf and returns; each caller appends the frame that names the rest of
   its body after the call.  Resume runs the frames in that order (RunFrame;
   w.ret is the callee's return value) and stops at a wait loop. *)
After(w, frame) ==
    IF w.exc # "None" THEN w
    ELSE [w EXCEPT !.nf = Append(@, frame)]

Suspend(w, frame) == [w EXCEPT !.nf = Append(@, frame)]

Return(w, value) == [w EXCEPT !.ret = value]

(* pyghmi.ipmi.private.util.get_ipmi_error: an error text when the response
   carries an error or a non-zero completion code, else False ("None") *)
GetIpmiError(response) ==
    IF response.error # "None" THEN response.error
    ELSE IF response.code = 0 THEN "None"
    ELSE "ipmi completion code"

Response(netfn, command, code, data) ==
    [t |-> "rsp", netfn |-> netfn, command |-> command, code |-> code,
     data |-> data, error |-> "None"]

(* {'error': 'timeout', 'code': 0xffff} *)
TimeoutResponse ==
    [t |-> "rsp", netfn |-> -1, command |-> -1, code |-> 65535,
     data |-> <<>>, error |-> "timeout"]

(* Session.raw_command after _cmdwait() has returned: transmit, and for a
   call without callback wait in awaitresponse() *)
RawCommandSend(w, a) ==
    IF w.logged = 0 THEN Raise(w, "Session no longer connected")
    ELSE
    With(SendIpmiNetPayload(
             [w EXCEPT !.incommand = TRUE,
                       !.lastresponse = NoResp,
                       !.ipmicallback = IF a.callback = "None"
                                        THEN "_generic_callback"
                                        ELSE a.callback],
             a.netfn, a.command, a.data, a.bridge, a.retry),
         LAMBDA w2 :
        IF w2.exc # "None" THEN w2
        ELSE IF a.callback # "None" THEN Return(w2, NoResp)
        ELSE After(IF a.retry /\ w2.lastresponse = NoResp /\ w2.logged # 0
                   THEN Suspend(w2, [k |-> "awaitresponse", a |-> a])
                   ELSE w2,
                   [k |-> "raw_command_end", a |-> a]))

(* Session.raw_command after awaitresponse() has returned *)
RawCommandEnd(w, a) ==
    IF a.retry /\ w.lastresponse = NoResp
    THEN Raise([w EXCEPT !.incommand = FALSE], "Session no longer connected")
    ELSE Return([w EXCEPT !.incommand = FALSE], w.lastresponse)

(* Session.raw_command.  w.late says whether the clock has passed
   logoutexpiry.  With a command still marked in flight (incommand),
   _cmdwait() spins the event loop: the call is suspended. *)
RawCommand(w, a) ==
    IF w.logged = 0
    THEN After(IF w.logoutexpiry /\ w.late
               THEN After(w, [k |-> "_mark_broken", error |-> "None"])
               ELSE w,
               [k |-> "raise", name |-> "Session no longer connected"])
    ELSE After(IF w.incommand THEN Suspend(w, [k |-> "_cmdwait"]) ELSE w,
               [k |-> "raw_command_send", a |-> a])

Cmd(netfn, command, data, retry, callback) ==
    [netfn |-> netfn, command |-> command, data |-> data, bridge |-> FALSE,
     retry |-> retry, callback |-> callback]

(* Session.logout, from the Close Session command on *)
LogoutClose(w) ==
    After(RawCommand(w, Cmd(6, 60, <<w.sessionid>>, FALSE, "None")),
          [k |-> "logout_end"])

(* Session.logout, after the Close Session command *)
LogoutEnd(w) ==
    Return([w EXCEPT !.lastpayload = NoPayload,
                     !.keepalive = FALSE,
                     !.logged = 0,
                     !.logging = FALSE,
                     !.broken = TRUE,
                     !.nowait = FALSE],
           NoResp)

(* Session.logout *)
Logout(w, sessionok) ==
    IF w.logged = 0 THEN Return(w, NoResp)
    ELSE IF w.sol_handler
    THEN After(RawCommand(w, Cmd(6, 73, <<1, 1, 0, 0, 0, 0>>, sessionok,
                                 "None")),
               [k |-> "logout_close"])
    ELSE LogoutClose(w)

(* Session._mark_broken, after logout(False) *)
MarkBrokenEnd(w, error) ==
    [w EXCEPT !.logging = FALSE, !.errormsg = error, !.broken = TRUE]

(* Session._mark_broken *)
MarkBroken(w, error) ==
    After(Logout([w EXCEPT !.lastpayload = NoPayload], FALSE),
          [k |-> "mark_broken_end", error |-> error])

(* Session.onlogon, the loop over logonwaiters: every waiter is popped and
   called; _sync_login is a stub, the caller's callback is recorded *)
OnLogonWaiters(w, parameter) ==
    LET called == [i \in 1..Len(w.logonwaiters) |->
                      [e |-> "waiter",
                       a |-> w.logonwaiters[Len(w.logonwaiters) + 1 - i],
                       n |-> IF parameter.error # "None" THEN 0 ELSE 1,
                       p |-> parameter]]
    IN  [w EXCEPT !.logonwaiters = <<>>, !.ev = @ \o called]

(* Session.onlogon *)
OnLogon(w, parameter) ==
    IF parameter.error # "None"
    THEN After(MarkBroken(Event(w, "onlogon", parameter.error, 0),
                          parameter.error),
               [k |-> "onlogon_waiters", p |-> parameter])
    ELSE OnLogonWaiters(Event(w, "onlogon", parameter.error, 0), parameter)

ErrorParam(errstr) == [error |-> errstr]
SuccessParam == [error |-> "None"]

(* Session._req_priv_level, from the final 'if response[code]' on *)
ReqPrivLevelCheck(w, response) ==
    IF response.code # 0
    THEN OnLogon([w EXCEPT !.logged = 0, !.logging = FALSE],
                 ErrorParam(GetIpmiError(response)))
    ELSE OnLogon([w EXCEPT !.logging = FALSE, !.keepalive = TRUE],
                 SuccessParam)

(* Session._req_priv_level, after the first Set Privilege command returned
   response: on 0x80/0x81 at privilege 4 ask again for privilege 3 *)
ReqPrivLevelGot(w, response) ==
    IF response.code # 0 /\ response.code \in {128, 129} /\ w.privlevel = 4
    THEN After(RawCommand([w EXCEPT !.privlevel = 3],
                          Cmd(6, 59, <<3>>, TRUE, "None")),
               [k |-> "req_priv_level_check"])
    ELSE ReqPrivLevelCheck(w, response)

(* _req_priv_level that reports the login without asking the BMC *)
ReqPrivLevelUnasked(w) ==
    OnLogon([w EXCEPT !.logged = 1, !.logoutexpiry = FALSE,
                      !.logging = FALSE, !.keepalive = TRUE],
            SuccessParam)

(* Session._req_priv_level *)
ReqPrivLevel(w) ==
    After(RawCommand([w EXCEPT !.logged = 1, !.logoutexpiry = FALSE],
                     Cmd(6, 59, <<w.privlevel>>, TRUE, "None")),
          [k |-> "req_priv_level_got"])

(* Session._generic_callback *)
GenericCallback(w, response) ==
    [w EXCEPT !.lastresponse =
        [response EXCEPT !.error = GetIpmiError(response)]]

---------------------------------------------------------------------------
(* Login callbacks *)

(* Session._got_channel_auth_cap.  data = <<channel, auth type support,
   status, extended capabilities>>.  The guard 'self.ipmi15only is not
   None' is true for every value _initsession and this method assign. *)
(* Session._got_channel_auth_cap, from the test of ipmiversion on *)
GotChannelAuthCapVersion(w, response) ==
    IF w.ipmiversion = 15
    THEN IF ~Bit(response.data[2], 2)
         THEN OnLogon(w, ErrorParam(
                "MD5 required but not enabled/available on target BMC"))
         ELSE GetSessionChallenge(w)
    ELSE OpenRmcpplusRequest(w)

(* Session._got_channel_auth_cap, from the test of code 0xcc on *)
GotChannelAuthCapChecked(w, response) ==
    IF response.code = 204
    THEN GetChannelAuthCap([w EXCEPT !.ipmi15only = 1])
    ELSE IF GetIpmiError(response) # "None"
    THEN OnLogon(w, ErrorParam(GetIpmiError(response)))
    ELSE IF Len(response.data) < 4 THEN Raise(w, "IndexError")
    ELSE GotChannelAuthCapVersion(
             IF Bit(response.data[2], 7) /\ Bit(response.data[4], 1)
             THEN [w EXCEPT !.ipmiversion = 20] ELSE w,
             response)

(* Session._got_channel_auth_cap *)
GotChannelAuthCap(w, response) ==
    IF response.error # "None" THEN OnLogon(w, ErrorParam(response.error))
    ELSE GotChannelAuthCapChecked(
             [w EXCEPT !.maxtimeout = ConfirmedMaxTimeout], response)

(* Session._got_session_challenge.  data = <<temporary session id,
   challenge>> *)
GotSessionChallenge(w, response) ==
    IF GetIpmiError(response) # "None"
    THEN OnLogon(w, ErrorParam(GetIpmiError(response)))
    ELSE IF Len(response.data) < 2 THEN Raise(w, "struct.error")
    ELSE ActivateSession([w EXCEPT !.sessionid = response.data[1],
                                   !.authtype = 2],
                         response.data[2])

(* Session._activated_session.  data = <<authtype, session id, initial
   inbound sequence number>> *)
ActivatedSession(w, response) ==
    IF GetIpmiError(response) # "None"
    THEN OnLogon(w, ErrorParam(GetIpmiError(response)))
    ELSE IF Len(response.data) < 3 THEN Raise(w, "struct.error")
    ELSE ReqPrivLevel([w EXCEPT !.sessionid = response.data[2],
                                !.sequencenumber = response.data[3]])

(* self.ipmicallback(response) *)
CallIpmiCallback(w, response) ==
    CASE w.ipmicallback = "_got_channel_auth_cap" ->
            GotChannelAuthCap(w, response)
      [] w.ipmicallback = "_got_session_challenge" ->
            GotSessionChallenge(w, response)
      [] w.ipmicallback = "_activated_session" ->
            ActivatedSession(w, response)
      [] w.ipmicallback = "_generic_callback" ->
            GenericCallback(w, response)
      [] w.ipmicallback = "callback" ->
            Event(w, "callback", response.error, response.code)
      [] OTHER -> Raise(w, "TypeError")

(* The head of pendingpayloads goes out once the payload in flight is
   done (src lines 1278-1283 and 1029-1038) *)
SendPending(w) ==
    IF Len(w.pendingpayloads) > 0
    THEN SendPayload([w EXCEPT !.pendingpayloads = Tail(@)],
                     Head(w.pendingpayloads).payload,
                     Head(w.pendingpayloads).ptype,
                     Head(w.pendingpayloads).retry)
    ELSE w

(* Session._parse_payload *)
ParsePayload(w, payload) ==
    Bind(SendPending(
             [w EXCEPT !.hasretried = 0,
                       !.tabooseq =
                           IF w.hasretried # 0
                           THEN (<<w.expectednetfn, w.expectedcmd, w.seqlun>>
                                  :> TabooRounds) @@ @
                           ELSE @,
                       !.expectednetfn = 511,
                       !.expectedcmd = 511,
                       !.seqlun = (@ + 1) % 64,
                       !.lastpayload = NoPayload,
                       !.last_payload_type = -1,
                       !.timeout = InitialTimeout + w.rnd]),
         LAMBDA x :
            CallIpmiCallback(x, Response(payload.netfn, payload.cmd,
                                         payload.code, payload.data)))

(* payload[-2], the byte before the trailing checksum *)
LastByte(payload) ==
    IF payload.data = <<>> THEN payload.code
    ELSE payload.data[Len(payload.data)]

(* _parse_ipmi_payload without the second look at request_entry *)
ParseIpmiPayloadEndKept(w) == w

(* Session._parse_ipmi_payload, after _parse_payload returned *)
ParseIpmiPayloadEnd(w) ==
    IF w.request_entry # <<>>
    THEN RemoveRequestEntry(w, <<w.expectednetfn, w.seqlun, w.expectedcmd>>)
    ELSE w

(* Session._parse_ipmi_payload *)
(* Session._parse_ipmi_payload, the request entry found and removed *)
ParseIpmiPayloadFound(w, payload) ==
    IF /\ payload.netfn \in {6, 7}
       /\ payload.cmd = IPMI_SEND_MESSAGE_CMD
       /\ LastByte(payload) = 0
    THEN w
    ELSE After(ParsePayload(w, payload), [k |-> "parse_ipmi_payload_end"])

(* Session._parse_ipmi_payload *)
ParseIpmiPayload(w, payload) ==
    IF payload.short THEN Event(w, "_parse_ipmi_payload", "None", 0)
    ELSE IF LookupRequestEntry(w, <<payload.netfn, payload.seqlun,
                                    payload.cmd>>)
    THEN ParseIpmiPayloadFound(
             RemoveRequestEntry(Event(w, "_parse_ipmi_payload", "None", 0),
                                <<payload.netfn, payload.seqlun,
                                  payload.cmd>>),
             payload)
    ELSE Event(w, "_parse_ipmi_payload", "None", 0)

---------------------------------------------------------------------------
(* RMCP+ session setup *)

(* A drop that reports the packet to the callback in charge *)
DropReported(w, why) ==
    [w EXCEPT !.why = why,
              !.ev = Append(@, [e |-> w.ipmicallback, a |-> why, n |-> 0])]

(* A return that ends the handling of the packet before any handler or
   callback saw it; why names the test that failed *)
Drop(w, why) == [w EXCEPT !.why = why]

(* _got_rmcp_response without the second proposal: a refusal is reported at
   once *)
GotRmcpResponseNoFallback(w, data) ==
    IF ~(w.sessioncontext # "None" /\ w.sessioncontext # "Established")
    THEN Drop(w, "context")
    ELSE IF data.tag # w.rmcptag THEN Drop(w, "tag")
    ELSE IF data.status # 0
    THEN OnLogon(w, ErrorParam("RMCP error"))
    ELSE IF w.localsid # data.localsid
    THEN Drop([w EXCEPT !.allowedpriv = data.priv], "localsid")
    ELSE SendRakp1([w EXCEPT !.allowedpriv = data.priv,
                             !.pendingsessionid = data.rsid,
                             !.lastpayload = NoPayload])

(* Session._got_rmcp_response.  The context test compares with the string
   "Established", which no assignment to sessioncontext produces. *)
GotRmcpResponse(w, data) ==
    IF ~(w.sessioncontext # "None" /\ w.sessioncontext # "Established")
    THEN Drop(w, "context")
    ELSE IF data.tag # w.rmcptag THEN Drop(w, "tag")
    ELSE IF data.status # 0
    THEN IF w.attemptedhash = 256
         THEN OpenRmcpplusRequest([w EXCEPT !.attemptedhash = 1])
         ELSE OnLogon(w, ErrorParam("RMCP error"))
    ELSE IF w.localsid # data.localsid
    THEN Drop([w EXCEPT !.allowedpriv = data.priv], "localsid")
    ELSE SendRakp1([w EXCEPT !.allowedpriv = data.priv,
                             !.pendingsessionid = data.rsid,
                             !.lastpayload = NoPayload])

(* The data RAKP2's key-exchange HMAC covers *)
Rakp2HmacData(localsid, psid, rand, rrand, guid, role) ==
    [lsid |-> localsid, psid |-> psid, rand |-> rand, rrand |-> rrand,
     guid |-> guid, role |-> role, user |-> UserId]

(* The session integrity key and the keys derived from it *)
Sik(w) ==
    Hmac(w.kg,
         [rand |-> w.randombytes, rrand |-> w.remoterandombytes,
          role |-> Role(w), user |-> UserId],
         w.currhashlib)
K1Of(sik, hashlib) == Hmac(sik, [const |-> 1], hashlib)

(* A comparison of the RAKP2 HMAC that lets every value pass *)
Rakp2HashAny(givenhash, expectedhash) == TRUE

(* The HMAC comparison of Session._got_rakp2 *)
Rakp2HashOk(givenhash, expectedhash) == givenhash = expectedhash

(* Session._got_rakp2, from the comparison of the HMAC on; the random
   number and the GUID of the BMC are on record *)
GotRakp2Hashed(w, data) ==
    IF ~Rakp2HashOk(data.hash,
                    Hmac(w.password,
                         Rakp2HmacData(data.localsid, w.pendingsessionid,
                                       w.randombytes, data.rrand, data.guid,
                                       Role(w)),
                         w.currhashlib))
    THEN OnLogon([w EXCEPT !.sessioncontext = "FAILED"],
                 ErrorParam("Incorrect password provided"))
    ELSE SendRakp3([w EXCEPT
                      !.sik = Sik(w),
                      !.k1 = K1Of(Sik(w), w.currhashlib),
                      !.sessioncontext = "EXPECTINGRAKP4",
                      !.lastpayload = NoPayload])

(* _got_rakp2 without the downgrade: every status other than 0 and 2 is
   reported *)
GotRakp2NoDowngrade(w, data) ==
    IF w.sessioncontext \notin {"EXPECTINGRAKP2", "EXPECTINGRAKP4"}
    THEN Drop(w, "context")
    ELSE IF data.tag # w.rmcptag THEN Drop(w, "tag")
    ELSE IF data.status # 0
    THEN IF data.status = 2 THEN Drop(w, "status")
         ELSE OnLogon(w, ErrorParam("RMCP error in RAKP2"))
    ELSE IF data.localsid # w.localsid THEN Drop(w, "localsid")
    ELSE GotRakp2Hashed([w EXCEPT !.remoterandombytes = data.rrand,
                                  !.remoteguid = data.guid],
                        data)

(* Session._got_rakp2 *)
GotRakp2(w, data) ==
    IF w.sessioncontext \notin {"EXPECTINGRAKP2", "EXPECTINGRAKP4"}
    THEN Drop(w, "context")
    ELSE IF data.tag # w.rmcptag THEN Drop(w, "tag")
    ELSE IF data.status # 0
    THEN IF data.status \in {9, 13} /\ w.privlevel = 4 /\ w.autopriv
         THEN Login([w EXCEPT !.privlevel = 3])
         ELSE IF data.status = 2 THEN Drop(w, "status")
         ELSE OnLogon(w, ErrorParam("RMCP error in RAKP2"))
    ELSE IF data.localsid # w.localsid THEN Drop(w, "localsid")
    ELSE GotRakp2Hashed([w EXCEPT !.remoterandombytes = data.rrand,
                                  !.remoteguid = data.guid],
                        data)

(* The integrity check value RAKP4 must carry *)
Rakp4AuthCode(w) ==
    Trunc(Hmac(w.sik,
               [rand |-> w.randombytes, psid |-> w.pendingsessionid,
                guid |-> w.remoteguid],
               w.currhashlib),
          w.currhashlen)

(* The guard of Session._got_rakp4 *)
Rakp4Expected(w, data) ==
    w.sessioncontext = "EXPECTINGRAKP4" /\ data.tag = w.rmcptag

(* _got_rakp4 without the comparison of the integrity check value *)
GotRakp4Unchecked(w, data) ==
    IF data.status # 0
    THEN Bind(IF data.status = 2 /\ w.logontries # 0
              THEN Relog(w) ELSE w,
              LAMBDA x :
                 IF data.status = 15 /\ x.logontries # 0
                 THEN Drop(x, "status")
                 ELSE OnLogon(x, ErrorParam("RMCP error reported in RAKP4")))
    ELSE IF data.localsid # w.localsid THEN Drop(w, "localsid")
    ELSE ReqPrivLevel([w EXCEPT !.sessionid = w.pendingsessionid,
                                !.integrityalgo = w.attemptedhash,
                                !.confalgo = 1,
                                !.sequencenumber = 1,
                                !.sessioncontext = "ESTABLISHED",
                                !.lastpayload = NoPayload])

(* Session._got_rakp4, from the status test on.  A status 2 with retries
   left restarts the login and then falls through to the error report. *)
GotRakp4Checked(w, data) ==
    IF data.status # 0
    THEN Bind(IF data.status = 2 /\ w.logontries # 0
              THEN Relog(w) ELSE w,
              LAMBDA x :
                 IF data.status = 15 /\ x.logontries # 0
                 THEN Drop(x, "status")
                 ELSE OnLogon(x, ErrorParam("RMCP error reported in RAKP4")))
    ELSE IF data.localsid # w.localsid THEN Drop(w, "localsid")
    ELSE IF data.authcode # Rakp4AuthCode(w)
    THEN OnLogon(w, ErrorParam("Invalid RAKP4 integrity code (wrong Kg?)"))
    ELSE ReqPrivLevel([w EXCEPT !.sessionid = w.pendingsessionid,
                                !.integrityalgo = w.attemptedhash,
                                !.confalgo = 1,
                                !.sequencenumber = 1,
                                !.sessioncontext = "ESTABLISHED",
                                !.lastpayload = NoPayload])

(* Session._got_rakp4 *)
GotRakp4(w, data) ==
    IF ~Rakp4Expected(w, data) THEN Drop(w, "context")
    ELSE GotRakp4Checked(w, data)

---------------------------------------------------------------------------
(* Inbound packets.  A packet is a record
     addr     : the socket address it came from
     at       : data[4], the authtype byte (6 = RMCP+)
     ptype    : RMCP+ payload type, the low 6 bits of data[5]
     integ    : bit 6 of data[5], enc : bit 7 of data[5]
     sid, seq : session id and session sequence number
     authcode : IPMI 1.5 MD5 authcode / RMCP+ trailing integrity code
     payload  : the payload (in the clear) *)

(* data[4:-currhashlen], the bytes the RMCP+ integrity code covers *)
SignedBody(pkt) ==
    [at |-> pkt.at, ptype |-> pkt.ptype, integ |-> pkt.integ,
     enc |-> pkt.enc, sid |-> pkt.sid, seq |-> pkt.seq,
     payload |-> pkt.payload]

(* hmac.new(k1, data[4:-currhashlen], currhashlib).digest()[:currhashlen] *)
IntegrityCode(k1, body, hashlib, hashlen) ==
    Trunc(Hmac(k1, body, hashlib), hashlen)

(* An authcode comparison that lets every value pass *)
Ipmi2AuthcodeAny(w, pkt) == TRUE

(* The authcode comparison of Session._handle_ipmi2_packet (src lines
   992-996) *)
Ipmi2AuthcodeOk(w, pkt) ==
    pkt.authcode = IntegrityCode(w.k1, SignedBody(pkt), w.currhashlib,
                                 w.currhashlen)

(* The sequence number test of the RMCP+ path (src lines 1001-1004) *)
Ipmi2SeqTooLow(w, remseqnumber) ==
    /\ w.remseqnumber # NoSeq
    /\ Lt32(remseqnumber, w.remseqnumber)
    /\ w.remseqnumber # MaxU32

(* The sequence number test of the IPMI 1.5 path (src lines 924-926) *)
Ipmi15SeqTooLow(w, remseqnumber) ==
    /\ w.remseqnumber # NoSeq
    /\ Lt32(remseqnumber, w.remseqnumber)

(* The Console (src/pyghmi/ipmi/console.py) on top of the session.  An SOL
   payload is a record: seq = payload[0], ack = payload[1], count =
   payload[2], flags = payload[3], data = payload[4:].  An element of
   pendingoutput is a record: brk says whether it is the dict {'break': 1},
   d holds the bytes of a text element. *)
NewConsole ==
    [t |-> "console", connected |-> FALSE, broken |-> FALSE, remseq |-> 0,
     myseq |-> 0, lastsize |-> 0, retriedpayload |-> 0,
     pendingoutput |-> <<>>, awaitingack |-> FALSE, activated |-> FALSE,
     force_session |-> FALSE, has_session |-> FALSE,
     callgotsession |-> NoResp, lastpayload |-> NoPayload,
     lasttextsize |-> 0, maxoutcount |-> 0]

(* Console._print_data: the iohandler receives data *)
PrintData(w, data) ==
    [w EXCEPT !.ev = Append(@, [e |-> "out_data", a |-> "None",
                                n |-> Len(data), d |-> data])]

(* Console._print_info: the iohandler receives {'info': info} *)
PrintInfo(w, info) == Event(w, "out_info", info, 0)

(* Console._print_error: the iohandler receives {'error': error}; the
   console lets go of the session and of its place as sol_handler *)
PrintError(w, error) ==
    Event([w EXCEPT !.con.broken = TRUE,
                    !.con.has_session = FALSE,
                    !.sol_handler = IF w.con.has_session THEN FALSE ELSE @],
          "out_error", error, 0)

(* Console.close *)
ConClose(w) ==
    IF w.con.has_session /\ w.con.activated
    THEN RawCommand(w, Cmd(6, 73, <<1, 1, 0, 0, 0, 0>>, TRUE, "None"))
    ELSE w

(* Console.send_payload after its wait loop; catch says whether the caller
   is the try block of _got_sol_payload, which answers IpmiException with
   close() *)
ConSend(w, payload, catch) ==
    IF ~w.con.has_session \/ w.logged = 0
    THEN IF catch
         THEN ConClose(PrintError(w, "Session no longer connected"))
         ELSE Raise(PrintError(w, "Session no longer connected"),
                    "Session no longer connected")
    ELSE SendPayload(w, payload, PT_sol, FALSE)

(* Console.send_payload *)
ConSendPayload(w, payload, catch) ==
    IF ~(w.con.connected \/ w.con.broken)
    THEN After(Suspend(w, [k |-> "connect_wait"]),
               [k |-> "con_send", p |-> payload, catch |-> catch])
    ELSE ConSend(w, payload, catch)

(* retries = 5 in Console._sendoutput *)
SolRetries == 5

(* A sequence counter that wraps to 0 *)
NextSeqWithZero(myseq) == (myseq + 1) % 16

(* myseq += 1; myseq &= 0xf; if myseq == 0: myseq = 1 *)
NextSeq(myseq) == IF (myseq + 1) % 16 = 0 THEN 1 ELSE (myseq + 1) % 16

(* bytearray((myseq, 0, 0, breakbyte)) + output *)
SolData(seq, breakbyte, output) ==
    [t |-> "sol", seq |-> seq, ack |-> 0, count |-> 0, flags |-> breakbyte,
     data |-> output]

(* bytearray((0, remseq, remdatalen, 0)) *)
SolAck(remseq, remdatalen) ==
    [t |-> "sol", seq |-> 0, ack |-> remseq, count |-> remdatalen,
     flags |-> 0, data |-> <<>>]

(* Console._sendoutput up to the retry loop *)
SendOutputPayload(w, payload) ==
    After(ConSendPayload([w EXCEPT !.con.myseq = payload.seq,
                                   !.con.lasttextsize = Len(payload.data),
                                   !.con.awaitingack = TRUE,
                                   !.con.lastpayload = payload],
                         payload, FALSE),
          [k |-> "sendoutput_loop", p |-> payload, retries |-> SolRetries])

(* Console._sendoutput *)
SendOutput(w, output, sendbreak) ==
    SendOutputPayload(w, SolData(NextSeq(w.con.myseq),
                                 IF sendbreak THEN 16 ELSE 0, output))

(* Console._sendoutput, the test of 'while retries and self.awaitingack' and
   what follows the loop *)
SendOutputLoop(w, payload, retries) ==
    IF retries # 0 /\ w.con.awaitingack
    THEN After(Suspend(w, [k |-> "ack_wait"]),
               [k |-> "sendoutput_expired", p |-> payload,
                retries |-> retries])
    ELSE IF retries = 0 THEN PrintError(w, "Connection lost")
    ELSE w

(* Console._sendoutput, the body of the retry loop after its inner wait *)
SendOutputExpired(w, payload, retries) ==
    After(IF w.con.awaitingack THEN ConSendPayload(w, payload, FALSE) ELSE w,
          [k |-> "sendoutput_loop", p |-> payload, retries |-> retries - 1])

(* A chunk that takes the whole head of pendingoutput whatever its size *)
ChunkWhole(text, maxoutcount) == Len(text)

(* The size of the chunk Console._sendpendingoutput takes from a text *)
ChunkSize(text, maxoutcount) ==
    IF Len(text) > maxoutcount THEN maxoutcount ELSE Len(text)

(* Console._sendpendingoutput, the head of pendingoutput being text *)
SendPendingText(w, size) ==
    SendOutput(
        IF size < Len(w.con.pendingoutput[1].d)
        THEN [w EXCEPT !.con.pendingoutput[1].d = SubSeq(@, size + 1, Len(@))]
        ELSE [w EXCEPT !.con.pendingoutput = Tail(@)],
        SubSeq(w.con.pendingoutput[1].d, 1, size), FALSE)

(* Console._sendpendingoutput *)
SendPendingOutput(w) ==
    IF w.con.pendingoutput = <<>> THEN w
    ELSE IF w.con.pendingoutput[1].brk
    THEN SendOutput([w EXCEPT !.con.pendingoutput = Tail(@)], <<>>, TRUE)
    ELSE SendPendingText(w, ChunkSize(w.con.pendingoutput[1].d,
                                      w.con.maxoutcount))

Break == [brk |-> TRUE, d |-> <<>>]
Text(data) == [brk |-> FALSE, d |-> data]

(* Console._addpendingdata *)
AddPendingData(w, item) ==
    IF item.brk \/ w.con.pendingoutput = <<>>
    THEN [w EXCEPT !.con.pendingoutput = Append(@, item)]
    ELSE IF w.con.pendingoutput[Len(w.con.pendingoutput)].brk
    THEN [w EXCEPT !.con.pendingoutput = Append(@, item)]
    ELSE [w EXCEPT !.con.pendingoutput[Len(w.con.pendingoutput)].d =
                       @ \o item.d]

(* send_data and send_break without the test of awaitingack *)
SendQueuedAlways(w) ==
    IF ~w.con.connected THEN w
    ELSE SendPendingOutput(w)

(* Console.send_data and Console.send_break after _addpendingdata *)
SendQueued(w) ==
    IF ~w.con.connected THEN w
    ELSE IF ~w.con.awaitingack THEN SendPendingOutput(w)
    ELSE w

(* Console.send_data *)
SendData(w, data) ==
    IF w.con.broken THEN w
    ELSE SendQueued(AddPendingData(w, Text(data)))

(* Console.send_break *)
SendBreak(w) == SendQueued(AddPendingData(w, Break))

(* The flags of payload[3] *)
Nacked(payload) == Bit(payload.flags, 6)
PoweredOff(payload) == Bit(payload.flags, 5)
Deactivated(payload) == Bit(payload.flags, 4)
BreakDetected(payload) == Bit(payload.flags, 2)

(* The unacknowledged rest of lastpayload put behind what is queued *)
RequeueBehind(w, ackcount) ==
    [w EXCEPT !.con.pendingoutput =
        @ \o <<Text(SubSeq(w.con.lastpayload.data, ackcount + 1,
                           Len(w.con.lastpayload.data)))>>]

(* Console._got_sol_payload, the unacknowledged rest of lastpayload goes
   back to the head of pendingoutput (src lines 390-398) *)
Requeue(w, ackcount) ==
    IF w.con.pendingoutput # <<>> /\ ~w.con.pendingoutput[1].brk
    THEN [w EXCEPT !.con.pendingoutput[1].d =
             SubSeq(w.con.lastpayload.data, ackcount + 1,
                    Len(w.con.lastpayload.data)) \o @]
    ELSE [w EXCEPT !.con.pendingoutput =
             <<Text(SubSeq(w.con.lastpayload.data, ackcount + 1,
                           Len(w.con.lastpayload.data)))>> \o @]

(* Console._got_sol_payload, 'if nacked and not breakdetected' *)
GotSolNack(w, payload) ==
    IF Deactivated(payload)
    THEN PrintError([(IF PoweredOff(payload)
                      THEN PrintInfo(w, "Remote system is powered down")
                      ELSE w) EXCEPT !.con.activated = FALSE],
                    "Remote IPMI console disconnected")
    ELSE Requeue(IF PoweredOff(payload)
                 THEN PrintInfo(w, "Remote system is powered down")
                 ELSE w,
                 payload.count)

(* _got_sol_payload taking every acknowledgement for one of the packet in
   flight *)
GotSolAckAnySeq(w, payload) ==
    IF w.con.myseq # 0 /\ payload.ack % 16 # 0
    THEN SendPendingOutput(
             IF Nacked(payload) /\ ~BreakDetected(payload)
             THEN GotSolNack([w EXCEPT !.con.awaitingack = FALSE], payload)
             ELSE [w EXCEPT !.con.awaitingack = FALSE])
    ELSE w

(* Console._got_sol_payload, from 'if self.myseq != 0 and ackseq ==
   self.myseq' on *)
GotSolAck(w, payload) ==
    IF w.con.myseq # 0 /\ payload.ack % 16 = w.con.myseq
    THEN SendPendingOutput(
             IF Nacked(payload) /\ ~BreakDetected(payload)
             THEN GotSolNack([w EXCEPT !.con.awaitingack = FALSE], payload)
             ELSE [w EXCEPT !.con.awaitingack = FALSE])
    ELSE IF payload.ack % 16 # 0 /\ w.con.awaitingack
    THEN ConSendPayload(w, w.con.lastpayload, FALSE)
    ELSE w

(* The data of a retry handed on, starting at the first byte not seen *)
NewDataOfRetry(data, lastsize) == SubSeq(data, lastsize + 1, Len(data))

(* remdata[4 + self.lastsize:] of a retry (src lines 359-362) *)
RetryData(data, lastsize) == SubSeq(data, 4 + lastsize + 1, Len(data))

(* remdata of Console._got_sol_payload *)
RemData(w, newseq, data) ==
    IF newseq = w.con.remseq
    THEN IF Len(data) > w.con.lastsize
         THEN RetryData(data, w.con.lastsize) ELSE <<>>
    ELSE data

(* An acknowledgement of the bytes handed on only, not of all received *)
GotSolDataAckDelivered(w, remdata, remdatalen) ==
    ConSendPayload(IF remdata # <<>> THEN PrintData(w, remdata) ELSE w,
                   SolAck(w.con.remseq, Len(remdata)), TRUE)

(* Console._got_sol_payload, 'if remdata' and the acknowledgement *)
GotSolData(w, remdata, remdatalen) ==
    ConSendPayload(IF remdata # <<>> THEN PrintData(w, remdata) ELSE w,
                   SolAck(w.con.remseq, remdatalen), TRUE)

(* Console._got_sol_payload *)
GotSolPayload(w, payload) ==
    IF payload.t = "error"
    THEN PrintError([w EXCEPT !.con.activated = FALSE], payload.error)
    ELSE After(IF payload.seq % 16 # 0
               THEN GotSolData([w EXCEPT !.con.remseq = payload.seq % 16,
                                         !.con.lastsize = Len(payload.data)],
                               RemData(w, payload.seq % 16, payload.data),
                               Len(payload.data))
               ELSE w,
               [k |-> "got_sol_ack", p |-> payload])

(* Console._got_session, after the Activate Payload command returned a
   response whose code is neither 0 nor 0x80: the text of the code is
   printed *)
GotSessionRefused(w, response) == PrintError(w, "SOL activation error")

(* Console._got_session, after the Activate Payload command returned code
   0x80, with the test of retriedpayload left out *)
GotSessionBusyForceAlways(w) ==
    IF w.con.force_session
    THEN After(RawCommand([w EXCEPT !.con.retriedpayload = 1],
                          Cmd(6, 73, <<1, 1, 0, 0, 0, 0>>, TRUE, "None")),
               [k |-> "got_session_again"])
    ELSE PrintError(w, "SOL Session active for another client")

(* Console._got_session, after the Activate Payload command returned code
   0x80: with force_session and retriedpayload unset the payload is
   deactivated and _got_session(sessrsp) runs with the response *)
GotSessionBusy(w) ==
    IF w.con.force_session /\ w.con.retriedpayload = 0
    THEN After(RawCommand([w EXCEPT !.con.retriedpayload = 1],
                          Cmd(6, 73, <<1, 1, 0, 0, 0, 0>>, TRUE, "None")),
               [k |-> "got_session_again"])
    ELSE PrintError(w, "SOL Session active for another client")

(* Console._got_session, after the Activate Payload command returned
   response: maxoutcount = (data[5] << 8) + data[4].  The code 0x80 is
   specific to the command and no key of constants.ipmi_completion_codes,
   whose test comes first. *)
GotSessionActivated(w, response) ==
    IF response.code = 128 THEN GotSessionBusy(w)
    ELSE IF response.code # 0 THEN GotSessionRefused(w, response)
    ELSE IF response.error # "None" THEN PrintError(w, response.error)
    ELSE IF Len(response.data) < 10
    THEN Raise([w EXCEPT !.con.activated = TRUE], "IndexError")
    ELSE IF response.data[9] + response.data[10] * 256 \notin {623, 28418}
    THEN Raise([w EXCEPT !.con.activated = TRUE,
                         !.con.maxoutcount =
                             response.data[6] * 256 + response.data[5]],
               "NotImplementedError")
    ELSE SendPendingOutput(
             [w EXCEPT !.con.activated = TRUE,
                       !.con.maxoutcount =
                           response.data[6] * 256 + response.data[5],
                       !.sol_handler = TRUE,
                       !.con.connected = TRUE])

(* Console._got_session *)
GotSession(w, response) ==
    IF response.error # "None" THEN PrintError(w, response.error)
    ELSE IF ~w.con.has_session
    THEN [w EXCEPT !.con.callgotsession = response]
    ELSE After(RawCommand(w, Cmd(6, 72, <<1, 1, 192, 0, 0, 0>>, TRUE,
                                 "None")),
               [k |-> "got_session_activated"])

(* Session._handle_ipmi2_packet, payload type SOL, after the checks *)
GotSolPacket(w, payload) ==
    Bind(IF payload.ack # 0 /\ w.last_payload_type = PT_sol
         THEN SendPending([Event(w, "sol_payload", "None", 0) EXCEPT
                              !.lastpayload = NoPayload,
                              !.last_payload_type = -1])
         ELSE Event(w, "sol_payload", "None", 0),
         LAMBDA x :
            IF x.sol_handler
            THEN GotSolPayload(Event(x, "sol_handler", "None", 0), payload)
            ELSE x)

(* Session._handle_ipmi2_packet *)
HandleIpmi2Packet(w, pkt) ==
    CASE pkt.ptype = PT_openrsp -> GotRmcpResponse(w, pkt.payload)
      [] pkt.ptype = PT_rakp2 -> GotRakp2(w, pkt.payload)
      [] pkt.ptype = PT_rakp4 -> GotRakp4(w, pkt.payload)
      [] pkt.ptype \in {PT_ipmi, PT_sol} ->
            IF ~pkt.integ THEN Drop(w, "integrity bit")
            ELSE IF w.k1 = NoKey THEN Drop(w, "k1")
            ELSE IF ~Ipmi2AuthcodeOk(w, pkt) THEN Drop(w, "authcode")
            ELSE IF pkt.sid # w.localsid THEN Drop(w, "sid")
            ELSE IF Ipmi2SeqTooLow(w, pkt.seq) THEN Drop(w, "seq")
            ELSE IF pkt.ptype = PT_ipmi
            THEN ParseIpmiPayload([w EXCEPT !.remseqnumber = pkt.seq,
                                            !.accepted = pkt.seq],
                                  pkt.payload)
            ELSE GotSolPacket([w EXCEPT !.remseqnumber = pkt.seq,
                                        !.accepted = pkt.seq],
                              pkt.payload)
      [] OTHER -> Drop(w, "ptype")

(* The IPMI 1.5 authcode test (src lines 936-945) *)
Ipmi15AuthOk(w, pkt) ==
    pkt.at # 2 \/
    pkt.authcode = Md5(w.password, w.sessionid, pkt.payload, pkt.seq)

(* Session._handle_ipmi_packet, IPMI 1.5 branch *)
HandleIpmi15Packet(w, pkt) ==
    IF Ipmi15SeqTooLow(w, pkt.seq) THEN Drop(w, "seq")
    ELSE IF pkt.at # w.authtype
    THEN Drop([w EXCEPT !.remseqnumber = pkt.seq], "authtype")
    ELSE IF pkt.sid # w.sessionid
    THEN Drop([w EXCEPT !.remseqnumber = pkt.seq], "sid")
    ELSE IF ~Ipmi15AuthOk(w, pkt)
    THEN Drop([w EXCEPT !.remseqnumber = pkt.seq], "authcode")
    ELSE ParseIpmiPayload([w EXCEPT !.remseqnumber = pkt.seq,
                                    !.accepted = pkt.seq],
                          pkt.payload)

(* Session._handle_ipmi_packet, after the test of the source address *)
HandleIpmiPacketFrom(w, pkt) ==
    IF pkt.at \in {0, 2} THEN HandleIpmi15Packet(w, pkt)
    ELSE IF pkt.at = 6 THEN HandleIpmi2Packet(w, pkt)
    ELSE Drop(w, "authtype")

(* Session._handle_ipmi_packet *)
HandleIpmiPacket(w, pkt) ==
    IF w.sockaddr # "None" /\ w.sockaddr # pkt.addr
    THEN Drop(w, "sockaddr")
    ELSE HandleIpmiPacketFrom(IF w.sockaddr = "None"
                              THEN [w EXCEPT !.sockaddr = pkt.addr] ELSE w,
                              pkt)

---------------------------------------------------------------------------
(* Session._timedout, after the timeout error went to ipmicallback *)
TimedoutGiveUp(w) == MarkBroken([w EXCEPT !.nowait = FALSE], "None")

(* A retransmission that sends the Open Session Request again as it was *)
TimedoutRetryVerbatim(w) ==
    Bind(IF w.sessioncontext \in {"EXPECTINGRAKP2", "EXPECTINGRAKP4"}
         THEN Relog([w EXCEPT !.lastpayload = NoPayload])
         ELSE SendPayload([w EXCEPT !.hasretried = 1], NoPayload, -1, TRUE),
         LAMBDA x : [x EXCEPT !.nowait = FALSE])

(* Session._timedout, the retransmission by session context *)
TimedoutRetry(w) ==
    Bind(IF w.sessioncontext = "OPENSESSION"
         THEN OpenRmcpplusRequest([w EXCEPT !.lastpayload = NoPayload])
         ELSE IF w.sessioncontext \in {"EXPECTINGRAKP2", "EXPECTINGRAKP4"}
         THEN Relog([w EXCEPT !.lastpayload = NoPayload])
         ELSE SendPayload([w EXCEPT !.hasretried = 1], NoPayload, -1, TRUE),
         LAMBDA x : [x EXCEPT !.nowait = FALSE])

(* Session._timedout, from the test of the context FAILED on *)
TimedoutContext(w) ==
    IF w.sessioncontext = "FAILED"
    THEN [w EXCEPT !.lastpayload = NoPayload, !.nowait = FALSE]
    ELSE TimedoutRetry(w)

(* _timedout without the retry budget: it never gives up *)
TimedoutForever(w) ==
    IF w.lastpayload = NoPayload THEN w
    ELSE TimedoutContext([w EXCEPT !.nowait = TRUE,
                                   !.timeout = @ + TimeoutStep])

(* A retransmission that treats the RAKP contexts like any other: it sends
   lastpayload again *)
TimedoutResendRetry(w) ==
    Bind(IF w.sessioncontext = "OPENSESSION"
         THEN OpenRmcpplusRequest([w EXCEPT !.lastpayload = NoPayload])
         ELSE SendPayload([w EXCEPT !.hasretried = 1], NoPayload, -1, TRUE),
         LAMBDA x : [x EXCEPT !.nowait = FALSE])

TimedoutResendStepped(w) ==
    IF w.timeout > w.maxtimeout
    THEN After(CallIpmiCallback(w, TimeoutResponse),
               [k |-> "timedout_give_up"])
    ELSE IF w.sessioncontext = "FAILED"
    THEN [w EXCEPT !.lastpayload = NoPayload, !.nowait = FALSE]
    ELSE TimedoutResendRetry(w)

(* _timedout with that retransmission *)
TimedoutResend(w) ==
    IF w.lastpayload = NoPayload THEN w
    ELSE TimedoutResendStepped([w EXCEPT !.nowait = TRUE,
                                         !.timeout = @ + TimeoutStep])

(* Session._timedout, from the test of the retry budget on *)
TimedoutStepped(w) ==
    IF w.timeout > w.maxtimeout
    THEN After(CallIpmiCallback(w, TimeoutResponse),
               [k |-> "timedout_give_up"])
    ELSE TimedoutContext(w)

(* Session._timedout *)
Timedout(w) ==
    IF w.lastpayload = NoPayload THEN w
    ELSE TimedoutStepped([w EXCEPT !.nowait = TRUE,
                                   !.timeout = @ + TimeoutStep])

---------------------------------------------------------------------------
(* The rest of a suspended method, by frame *)
RunFrame(w, f) ==
    CASE f.k = "_mark_broken" -> MarkBroken(w, f.error)
      [] f.k = "raise" -> Raise(w, f.name)
      [] f.k = "raw_command_send" -> RawCommandSend(w, f.a)
      [] f.k = "raw_command_end" -> RawCommandEnd(w, f.a)
      [] f.k = "logout_close" -> LogoutClose(w)
      [] f.k = "logout_end" -> LogoutEnd(w)
      [] f.k = "mark_broken_end" -> MarkBrokenEnd(w, f.error)
      [] f.k = "onlogon_waiters" -> OnLogonWaiters(w, f.p)
      [] f.k = "req_priv_level_got" -> ReqPrivLevelGot(w, w.ret)
      [] f.k = "req_priv_level_check" -> ReqPrivLevelCheck(w, w.ret)
      [] f.k = "parse_ipmi_payload_end" -> ParseIpmiPayloadEnd(w)
      [] f.k = "timedout_give_up" -> TimedoutGiveUp(w)
      [] f.k = "con_send" -> ConSend(w, f.p, f.catch)
      [] f.k = "sendoutput_loop" -> SendOutputLoop(w, f.p, f.retries)
      [] f.k = "sendoutput_expired" -> SendOutputExpired(w, f.p, f.retries)
      [] f.k = "got_sol_ack" -> GotSolAck(w, f.p)
      [] f.k = "got_session_activated" -> GotSessionActivated(w, w.ret)
      [] f.k = "got_session_again" -> GotSession(w, w.ret)
      [] f.k = "init_end" ->
            (* Session.__init__ after 'while self.logging' (src 257-258) *)
            IF w.broken THEN Raise(w, "IpmiException")
            ELSE [w EXCEPT !.ctor = "returned"]

(* Wait loops: the frames in which the event loop runs *)
WaitFrames == {"init_wait", "awaitresponse", "_cmdwait", "connect_wait",
               "ack_wait"}
IsWait(f) == f.k \in WaitFrames

(* The loop conditions: 'while self.logging' in __init__ (src 255),
   awaitresponse (src 440), _cmdwait via _isincommand (src 436, 419) *)
WaitCond(w, f) ==
    CASE f.k = "init_wait" -> w.logging
      [] f.k = "awaitresponse" ->
            f.a.retry /\ w.lastresponse = NoResp /\ w.logged # 0
      [] f.k = "_cmdwait" -> w.incommand
      [] f.k = "connect_wait" -> ~(w.con.connected \/ w.con.broken)
      [] f.k = "ack_wait" -> w.con.awaitingack

(* An exception no frame catches unwinds the whole stack and reaches the
   caller; raised out of __init__ it leaves the caller without a Session *)
Uncaught(w, stk) ==
    [w |-> [Event(w, "raise", w.exc, 0) EXCEPT
                !.exc = "None", !.nf = <<>>,
                !.ctor = IF w.ctor = "running" THEN "raised" ELSE @],
     stack |-> <<>>]

(* Run on after a method returned: take up the frames the run left, leave
   the wait loops whose condition no longer holds and run the rest of the
   suspended callers *)
RECURSIVE Resume(_, _)
Resume(w, stk) ==
    IF w.exc # "None" THEN Uncaught(w, stk)
    ELSE IF w.nf # <<>>
    THEN Resume([w EXCEPT !.nf = <<>>], w.nf \o stk)
    ELSE IF stk = <<>> THEN [w |-> w, stack |-> stk]
    ELSE IF IsWait(Head(stk))
    THEN IF WaitCond(w, Head(stk)) THEN [w |-> w, stack |-> stk]
         ELSE Resume(w, Tail(stk))
    ELSE Resume(RunFrame(w, Head(stk)), Tail(stk))

WaitDepth(stk) == Cardinality({i \in 1..Len(stk) : IsWait(stk[i])})

---------------------------------------------------------------------------
(* The Session object as Session.__init__ leaves it before self.login() *)
NewSession(autopriv, onlogon) ==
    [broken |-> FALSE, logged |-> 0, logging |-> FALSE,
     privlevel |-> 4, autopriv |-> autopriv,
     logoutexpiry |-> FALSE, maxtimeout |-> InitMaxTimeout,
     incommand |-> FALSE, lastpayload |-> NoPayload,
     last_payload_type |-> -1,
     pendingpayloads |-> <<>>, request_entry |-> <<>>,
     password |-> Password, kg |-> Password,
     logonwaiters |-> <<onlogon>>,
     localsid |-> 0, confalgo |-> 0, integrityalgo |-> 0,
     attemptedhash |-> 0, currhashlib |-> 0, currhashlen |-> 0,
     k1 |-> NoKey, sik |-> NoKey, rmcptag |-> 0,
     ipmicallback |-> "None", sessioncontext |-> "None",
     sequencenumber |-> 0, sessionid |-> 0, authtype |-> 0,
     ipmiversion |-> 15, timeout |-> 0, seqlun |-> 0,
     tabooseq |-> <<>>, ipmi15only |-> 0, sol_handler |-> FALSE,
     sockaddr |-> "None", remseqnumber |-> NoSeq,
     pendingsessionid |-> -1, allowedpriv |-> -1,
     randombytes |-> 0, remoterandombytes |-> 0, remoteguid |-> 0,
     urandom |-> 0, accepted |-> NoSeq,
     expectednetfn |-> -1, expectedcmd |-> -1, hasretried |-> 0,
     logontries |-> 0, errormsg |-> "None", lastresponse |-> NoResp,
     keepalive |-> FALSE, nowait |-> FALSE,
     ctor |-> "running"]

NoPkt == [t |-> "None", at |-> -1]

(* The world a constructor call starts in *)
NewWorld(autopriv, onlogon, rnd) ==
    NewSession(autopriv, onlogon) @@
    [wire |-> <<>>, ev |-> <<>>, nf |-> <<>>, exc |-> "None", why |-> "None",
     ret |-> NoResp, rnd |-> rnd, late |-> FALSE, con |-> NoConsole]

(* Session.__init__: build the object, call login(), then wait in
   'while self.logging: self.wait_for_rsp()' *)
Construct(autopriv, onlogon, rnd) ==
    Resume(Login(NewWorld(autopriv, onlogon, rnd)),
           <<[k |-> "init_wait"], [k |-> "init_end"]>>)

(* The state a run r of the session leaves behind, with an SDR reader *)
StartWith(r, pkt, step, budget, reader) ==
    /\ session = [f \in DOMAIN NewSession(TRUE, "onlogon") |-> r.w[f]]
    /\ wire = r.w.wire
    /\ events = r.w.ev
    /\ logons = <<>>
    /\ stack = r.stack
    /\ lastpkt = pkt
    /\ laststep = step
    /\ limits = budget
    /\ console = r.w.con
    /\ sdr = reader

(* The state a run r of the session leaves behind *)
StartFrom(r, pkt, step, budget) == StartWith(r, pkt, step, budget, NoSdr)

Init ==
    \E autopriv \in BOOLEAN, onlogon \in {"onlogon"}, rnd \in Jitter :
       StartFrom(Construct(autopriv, onlogon, rnd), NoPkt, "init",
                 [wire |-> MaxWire, depth |-> MaxDepth,
                  timeouts |-> MaxTimeouts, calls |-> MaxCalls,
                  recv |-> -1])

---------------------------------------------------------------------------
(* What the network can deliver.  Every set holds the packets a BMC that
   follows the exchange would send, and each of them with one field
   changed (another value the session has used or a foreign one), so that
   every comparison in the receive path can come out either way. *)
(* Until the session has pinned the peer address every address is as good
   as any other; the first packet is taken to come from "bmc" *)
OtherAddr(w) == IF w.sockaddr = "None" THEN "bmc" ELSE "other"
BmcSid == 101
RemSeqs == {U32(1), U32(2), MaxU32}
RemoteRandom == 77
RemoteGuid == 88

Packet(addr, at, ptype, integ, enc, sid, seq, authcode, payload) ==
    [t |-> "packet", addr |-> addr, at |-> at, ptype |-> ptype,
     integ |-> integ,
     enc |-> enc, sid |-> sid, seq |-> seq, authcode |-> authcode,
     payload |-> payload]

(* RMCP+ session setup messages travel outside a session: no integrity
   code, session id 0, sequence number 0 *)
SetupPackets(w, ptype, payloads) ==
    {Packet("bmc", 6, ptype, FALSE, FALSE, 0, U32(0), NoKey, p) :
        p \in payloads}
    \cup {Packet(OtherAddr(w), 6, ptype, FALSE, FALSE, 0, U32(0), NoKey, p) :
        p \in {q \in payloads : q.dev = "none"}}

OpenRsp(w, dev) ==
    [t |-> "openrsp", dev |-> dev,
     tag |-> IF dev = "tag" THEN w.rmcptag - 1 ELSE w.rmcptag,
     status |-> IF dev = "status" THEN 1 ELSE 0,
     localsid |-> IF dev = "localsid" THEN w.localsid - 1 ELSE w.localsid,
     rsid |-> BmcSid, priv |-> 4]

OpenResponses(w) ==
    {OpenRsp(w, dev) : dev \in {"none", "tag", "status", "localsid"}}

Rakp2(w, dev, status) ==
    [t |-> "rakp2", dev |-> dev,
     tag |-> IF dev = "tag" THEN w.rmcptag - 1 ELSE w.rmcptag,
     status |-> status,
     localsid |-> IF dev = "localsid" THEN w.localsid - 1 ELSE w.localsid,
     rrand |-> RemoteRandom, guid |-> RemoteGuid,
     hash |-> Hmac(IF dev = "password" THEN WrongPassword ELSE Password,
                   Rakp2HmacData(w.localsid, w.pendingsessionid,
                                 IF dev = "stale" THEN w.randombytes - 1
                                 ELSE w.randombytes,
                                 RemoteRandom, RemoteGuid, Role(w)),
                   w.currhashlib)]

(* Outside the contexts that look at a RAKP2 message one message stands
   for all of them *)
Rakp2Messages(w) ==
    IF w.sessioncontext \notin {"EXPECTINGRAKP2", "EXPECTINGRAKP4"}
    THEN {Rakp2(w, "none", 0)}
    ELSE {Rakp2(w, dev, 0) :
            dev \in {"none", "tag", "localsid", "password", "stale"}}
         \cup {Rakp2(w, "status", status) : status \in {2, 9, 18}}

Rakp4(w, dev, status) ==
    [t |-> "rakp4", dev |-> dev,
     tag |-> IF dev = "tag" THEN w.rmcptag - 1 ELSE w.rmcptag,
     status |-> status,
     localsid |-> IF dev = "localsid" THEN w.localsid - 1 ELSE w.localsid,
     authcode |-> Rakp4AuthCode(
        IF dev = "key"
        THEN [w EXCEPT !.sik = Hmac(WrongKey, [const |-> 0], w.currhashlib)]
        ELSE w)]

Rakp4Messages(w) ==
    IF w.sessioncontext # "EXPECTINGRAKP4"
    THEN {Rakp4(w, "none", 0)}
    ELSE {Rakp4(w, dev, 0) : dev \in {"none", "tag", "localsid", "key"}}
         \cup {Rakp4(w, "status", status) : status \in {2, 15, 18}}

(* Completion code and data a BMC may answer per command: Get Channel
   Authentication Capabilities (IPMI 2.0 capable / 1.5 with MD5 / 1.5
   without MD5 / invalid data field 0xcc), Get Session Challenge, Activate
   Session, Set Session Privilege Level, anything else *)
Answers(cmd) ==
    CASE cmd = 56 -> {<<0, <<1, 132, 0, 2>>>>, <<0, <<1, 4, 0, 0>>>>,
                      <<0, <<1, 0, 0, 0>>>>, <<204, <<>>>>}
      [] cmd = 57 -> {<<0, <<BmcSid, 9>>>>, <<193, <<>>>>}
      [] cmd = 58 -> {<<0, <<2, BmcSid, 5>>>>, <<0, <<2, BmcSid, 0>>>>,
                      <<193, <<>>>>}
      [] cmd = 59 -> {<<0, <<>>>>, <<128, <<>>>>, <<193, <<>>>>}
      [] OTHER -> {<<0, <<>>>>, <<193, <<>>>>}

IpmiReply(short, netfn, seqlun, cmd, code, data) ==
    [t |-> "ipmirsp", short |-> short, netfn |-> netfn, seqlun |-> seqlun,
     cmd |-> cmd, code |-> code, data |-> data]

(* Replies to the request sent last, whether its entry is on record or
   not *)
LastRequestReplies(w) ==
    IF w.lastpayload.t = "ipmi"
    THEN {IpmiReply(FALSE, w.lastpayload.netfn + 1, w.lastpayload.seqlun,
                    w.lastpayload.cmd, a[1], a[2]) :
             a \in Answers(w.lastpayload.cmd)}
    ELSE {}

(* Replies to the requests on record and to the request sent last, a reply
   nobody asked for and a payload too short to be an IPMI message *)
IpmiReplies(w) ==
    UNION {{IpmiReply(FALSE, w.request_entry[i][1], w.request_entry[i][2],
                      w.request_entry[i][3], a[1], a[2]) :
                a \in Answers(w.request_entry[i][3])} :
              i \in 1..Len(w.request_entry)}
    \cup LastRequestReplies(w)
    \cup {IpmiReply(FALSE, 7, 63, 1, 0, <<>>),
          IpmiReply(TRUE, 0, 0, 0, 0, <<>>)}

(* The reply the BMC owes first *)
FirstReply(w) ==
    IF w.request_entry = <<>> THEN IpmiReply(FALSE, 7, 63, 1, 0, <<>>)
    ELSE LET e == w.request_entry[1]
             a == CHOOSE x \in Answers(e[3]) : x[1] = 0
         IN  IpmiReply(FALSE, e[1], e[2], e[3], a[1], a[2])

SolPayload(ack) ==
    [t |-> "sol", seq |-> 1, ack |-> ack, count |-> 0, flags |-> 0,
     data |-> <<>>]
SolPayloads == {SolPayload(0), SolPayload(1)}

(* The packet with the integrity code a holder of key computes for it *)
Signed(w, key, pkt) ==
    [pkt EXCEPT !.authcode = IntegrityCode(key, SignedBody(pkt),
                                           w.currhashlib, w.currhashlen)]

(* RMCP+ packets inside a session *)
SessionPacket(w, ptype, seq, p, dev) ==
    LET good == Packet("bmc", 6, ptype, TRUE, TRUE, w.localsid, seq, NoKey,
                       p)
    IN  CASE dev = "none" -> Signed(w, w.k1, good)
          [] dev = "addr" ->
                [Signed(w, w.k1, good) EXCEPT !.addr = OtherAddr(w)]
          [] dev = "integ" -> Signed(w, w.k1, [good EXCEPT !.integ = FALSE])
          [] dev = "enc" -> Signed(w, w.k1, [good EXCEPT !.enc = FALSE])
          [] dev = "sid" -> Signed(w, w.k1, [good EXCEPT !.sid = 0])
          [] dev = "key" -> Signed(w, K1Of(WrongKey, w.currhashlib), good)
          [] dev = "altered" ->
                [Signed(w, w.k1, good) EXCEPT !.seq = MaxU32]

(* Before K1 exists no integrity code can be right: one packet with and
   one without the integrity bit stand for all of them *)
SessionPackets(w, ptype, payloads, first) ==
    IF w.k1 = NoKey
    THEN {SessionPacket(w, ptype, U32(2), first, dev) :
            dev \in {"none", "integ"}}
    ELSE {SessionPacket(w, ptype, U32(2), p, "none") : p \in payloads}
         \cup {SessionPacket(w, ptype, seq, first, "none") : seq \in RemSeqs}
         \cup {SessionPacket(w, ptype, U32(2), first, dev) :
                 dev \in {"addr", "integ", "enc", "sid", "key", "altered"}}

(* IPMI 1.5 packets *)
Ipmi15Packet(w, at, seq, p, dev) ==
    LET sid == IF dev = "sid" THEN 99 ELSE w.sessionid
        code == IF at = 2
                THEN Md5(IF dev = "password" THEN WrongPassword
                         ELSE Password, sid, p, seq)
                ELSE [md5 |-> NoKey]
    IN  Packet(IF dev = "addr" THEN OtherAddr(w) ELSE "bmc", at, 0, FALSE,
               FALSE, sid, seq, code, p)

Ipmi15Packets(w) ==
    LET at == IF w.authtype = 2 THEN 2 ELSE 0
    IN  {Ipmi15Packet(w, at, U32(2), p, "none") : p \in IpmiReplies(w)}
        \cup {Ipmi15Packet(w, at, seq, FirstReply(w), "none") :
                seq \in RemSeqs}
        \cup {Ipmi15Packet(w, 2 - at, U32(2), FirstReply(w), "none")}
        \cup {Ipmi15Packet(w, at, U32(2), FirstReply(w), dev) :
                dev \in {"addr", "sid", "password"}}

---------------------------------------------------------------------------
(* Steps.  The event loop runs only inside a wait loop of the Session
   (stack top) or when the caller, back from the constructor, calls
   wait_for_rsp(). *)
InEventLoop ==
    \/ stack # <<>> /\ IsWait(Head(stack))
    \/ stack = <<>> /\ session.ctor = "returned"

CallerIdle == stack = <<>> /\ session.ctor = "returned"

(* The parameters the callback given as onlogon received in the run;
   [error |-> "None"] stands for {'success': True} *)
LogonResults(ev) ==
    LET Sel(e) == e.e = "waiter" /\ e.a = "onlogon"
        F[i \in 0..Len(ev)] ==
            IF i = 0 THEN <<>>
            ELSE IF Sel(ev[i]) THEN Append(F[i - 1], ev[i].p) ELSE F[i - 1]
    IN  F[Len(ev)]

RecvSteps == {"RecvOpenRsp", "RecvRakp2", "RecvRakp4", "RecvIpmi2",
              "RecvSol", "RecvIpmi15", "RecvUnknown", "RecvSolData"}

CallSteps == {"CallRawCommand", "CallSendPayload", "CallSendData",
              "CallSendBreak"}

(* Commit the world r.w and the stack r.stack a run ended with.  limits
   holds what is left of the budgets of the run: packets on the wire, nested
   wait loops, timer expiries, calls of the caller, packets received (a
   negative number of packets stands for no limit). *)
Commit(r, step, pkt) ==
    /\ WaitDepth(r.stack) <= limits.depth
    /\ Len(r.w.pendingpayloads) <= MaxPending
    /\ session' = [f \in SessionFields |-> r.w[f]]
    /\ wire' = r.w.wire
    /\ events' = r.w.ev
    /\ logons' = logons \o LogonResults(r.w.ev)
    /\ stack' = r.stack
    /\ lastpkt' = IF r.w.why = "None" THEN pkt
                  ELSE [t |-> "dropped", at |-> pkt.at, why |-> r.w.why]
    /\ laststep' = step
    /\ limits' = CASE step \in {"Timeout", "SolRetryExpires"} ->
                        [limits EXCEPT !.timeouts = @ - 1]
                   [] step \in CallSteps ->
                        [limits EXCEPT !.calls = @ - 1]
                   [] step \in RecvSteps /\ limits.recv > 0 ->
                        [limits EXCEPT !.recv = @ - 1]
                   [] OTHER -> limits
    /\ console' = r.w.con
    /\ sdr' = sdr

(* process_pktqueue: one packet is read and handled *)
Receive(pkt, step) ==
    /\ InEventLoop
    /\ Len(wire) < limits.wire
    /\ limits.recv # 0
    /\ \E rnd \in Jitter :
          Commit(Resume(HandleIpmiPacket(World(rnd, FALSE), pkt), stack),
                 step, pkt)

RecvOpenRsp ==
    \E pkt \in SetupPackets(session, PT_openrsp, OpenResponses(session)) :
        Receive(pkt, "RecvOpenRsp")

RecvRakp2 ==
    \E pkt \in SetupPackets(session, PT_rakp2, Rakp2Messages(session)) :
        Receive(pkt, "RecvRakp2")

RecvRakp4 ==
    \E pkt \in SetupPackets(session, PT_rakp4, Rakp4Messages(session)) :
        Receive(pkt, "RecvRakp4")

RecvIpmi2 ==
    \E pkt \in SessionPackets(session, PT_ipmi, IpmiReplies(session),
                              FirstReply(session)) :
        Receive(pkt, "RecvIpmi2")

RecvSol ==
    \E pkt \in SessionPackets(session, PT_sol, SolPayloads,
                              SolPayload(1)) :
        Receive(pkt, "RecvSol")

RecvIpmi15 ==
    \E pkt \in Ipmi15Packets(session) : Receive(pkt, "RecvIpmi15")

(* A packet whose authtype byte is none of 0, 2, 6 *)
RecvUnknown ==
    \E addr \in {"bmc", OtherAddr(session)} :
        Receive(Packet(addr, 4, 0, FALSE, FALSE, 0, U32(0), NoKey,
                       NoPayload),
                "RecvUnknown")

(* The retry timer of the session fires: Session._timedout *)
Timeout ==
    /\ InEventLoop
    /\ limits.timeouts > 0
    /\ Len(wire) < limits.wire
    /\ \E rnd \in Jitter :
          Commit(Resume(Timedout(World(rnd, FALSE)), stack),
                 "Timeout", NoPkt)

(* The clock passes the deadline in self.incommand while raw_command spins
   in _cmdwait: _isincommand clears lastpayload and returns 0 *)
CommandExpires ==
    /\ stack # <<>> /\ Head(stack).k = "_cmdwait"
    /\ Len(wire) < limits.wire
    /\ \E rnd \in Jitter :
          Commit(Resume([World(rnd, FALSE) EXCEPT !.lastpayload = NoPayload],
                        Tail(stack)),
                 "CommandExpires", NoPkt)

(* The caller issues raw_command(netfn=6, command=1, callback=...) *)
CallRawCommand ==
    /\ CallerIdle
    /\ limits.calls > 0
    /\ Len(wire) < limits.wire
    /\ \E rnd \in Jitter, late \in BOOLEAN :
          Commit(Resume(RawCommand(World(rnd, late),
                                   Cmd(6, 1, <<>>, TRUE, "callback")),
                        stack),
                 "CallRawCommand", NoPkt)

(* A payload client (the SOL console) hands a payload to send_payload *)
CallSendPayload ==
    /\ CallerIdle
    /\ limits.calls > 0
    /\ session.logged # 0
    /\ Len(wire) < limits.wire
    /\ \E rnd \in Jitter :
          Commit(Resume(SendPayload(World(rnd, FALSE),
                                    [t |-> "sol", seq |-> 1, ack |-> 0,
                                     count |-> 0, flags |-> 0,
                                     data |-> <<>>],
                                    PT_sol, FALSE),
                        stack),
                 "CallSendPayload", NoPkt)

Next ==
    \/ RecvOpenRsp
    \/ RecvRakp2
    \/ RecvRakp4
    \/ RecvIpmi2
    \/ RecvSol
    \/ RecvIpmi15
    \/ RecvUnknown
    \/ Timeout
    \/ CommandExpires
    \/ CallRawCommand
    \/ CallSendPayload

Spec == Init /\ [][Next]_vars

---------------------------------------------------------------------------
(* The login up to the Set Session Privilege Level command, against a BMC
   that supports IPMI 2.0 and answers every message as asked: the handlers
   applied to its four replies in turn. *)
Deliver(r, pkt) ==
    Resume(HandleIpmiPacket([r.w EXCEPT !.ev = <<>>, !.why = "None"], pkt),
           r.stack)

AuthCapReply(w) ==
    LET e == w.request_entry[1]
    IN  Ipmi15Packet(w, 0, U32(0),
                     IpmiReply(FALSE, e[1], e[2], e[3], 0, <<1, 132, 0, 2>>),
                     "none")

SetupPacket(ptype, p) ==
    Packet("bmc", 6, ptype, FALSE, FALSE, 0, U32(0), NoKey, p)

Rakp4Packet(w) == SetupPacket(PT_rakp4, Rakp4(w, "none", 0))

(* The replies to Get Channel Authentication Capabilities, Open Session
   Request and RAKP1, each built from the session its request left *)
DeliverAuthCap(r) == Deliver(r, AuthCapReply(r.w))
DeliverOpenRsp(r) ==
    Deliver(r, SetupPacket(PT_openrsp, OpenRsp(r.w, "none")))
DeliverRakp2(r) ==
    Deliver(r, SetupPacket(PT_rakp2, Rakp2(r.w, "none", 0)))
DeliverRakp4(r) == Deliver(r, Rakp4Packet(r.w))

AwaitingRakp4 ==
    DeliverRakp2(DeliverOpenRsp(DeliverAuthCap(
        Construct(TRUE, "onlogon", CHOOSE x \in Jitter : TRUE))))

(* The budgets of the runs that follow a command to the end of its
   retries *)
RetryWire == 12
RetryDepth == 3
RetryTimeouts == 6
RetryCalls == 1
RetryRecv == 2

(* The session as the fourth reply (RAKP4) leaves it: ESTABLISHED, Set
   Session Privilege Level on the wire, __init__ waiting for the answer *)
StartRetry(r4) ==
    StartFrom(DeliverRakp4(r4), Rakp4Packet(r4.w), "RecvRakp4",
              [wire |-> RetryWire, depth |-> RetryDepth,
               timeouts |-> RetryTimeouts, calls |-> RetryCalls,
               recv |-> RetryRecv])

InitRetry == StartRetry(AwaitingRakp4)

SpecRetry == InitRetry /\ [][Next]_vars

---------------------------------------------------------------------------
(* A session the caller holds and that broke afterwards.  The BMC answers
   Set Session Privilege Level, so that __init__ returns the Session; then
   two Open Session Responses with an error status arrive.  The first makes
   _got_rmcp_response ask again with SHA1, the second makes it report
   'RMCP error' to onlogon, whose _mark_broken logs out (Close Session) and
   sets broken. *)
DeliverPrivilege(r) ==
    Deliver(r, SessionPacket(r.w, PT_ipmi, U32(1), FirstReply(r.w), "none"))

OpenErrorPacket(w) == SetupPacket(PT_openrsp, OpenRsp(w, "status"))

DeliverOpenError(r) == Deliver(r, OpenErrorPacket(r.w))

LoggedIn == DeliverPrivilege(DeliverRakp4(AwaitingRakp4))

AskedAgain == DeliverOpenError(LoggedIn)

(* The budgets of the runs that follow a broken session *)
BrokenWire == 12
BrokenDepth == 2
BrokenTimeouts == 1
BrokenCalls == 1
BrokenRecv == 5

StartBroken(r) ==
    StartFrom(DeliverOpenError(r), OpenErrorPacket(r.w), "RecvOpenRsp",
              [wire |-> BrokenWire, depth |-> BrokenDepth,
               timeouts |-> BrokenTimeouts, calls |-> BrokenCalls,
               recv |-> BrokenRecv])

InitBroken == StartBroken(AskedAgain)

SpecBroken == InitBroken /\ [][Next]_vars

----------------------------------------------------------------------------
(* The Console on a session that logged in.  Console.__init__ builds the
   Session, whose onlogon call finds ipmi_session unset and leaves the
   response in callgotsession; after Session.__init__ returned,
   _got_session(callgotsession) sends Activate Payload and the BMC's reply
   grants MaxOut bytes a packet on port 623. *)
MaxOut == 2

ActivateData == <<0, 0, 0, 0, MaxOut, 0, MaxOut, 0, 111, 2, 255, 255>>

ActivateReply(w) ==
    LET e == CHOOSE x \in {w.request_entry[i] :
                              i \in 1..Len(w.request_entry)} : x[3] = 72
    IN  SessionPacket(w, PT_ipmi, U32(2),
                      IpmiReply(FALSE, e[1], e[2], e[3], 0, ActivateData),
                      "none")

ActivatingAs(force) ==
    Resume(GotSession([LoggedIn.w EXCEPT
                          !.con = [NewConsole EXCEPT
                                      !.has_session = TRUE,
                                      !.force_session = force],
                          !.ev = <<>>],
                      SuccessParam),
           LoggedIn.stack)

Activating == ActivatingAs(FALSE)

Activated == Deliver(Activating, ActivateReply(Activating.w))

(* An SOL payload of the BMC: payload[0] = seq, payload[1] = ack,
   payload[2] = count, payload[3] = flags, payload[4:] = data *)
SolIn(seq, ack, count, flags, data) ==
    [t |-> "sol", seq |-> seq, ack |-> ack, count |-> count, flags |-> flags,
     data |-> data]

SolPacket(w, p) == SessionPacket(w, PT_sol, U32(2), p, "none")

(* send_data of one byte, then the BMC's acknowledgement of it *)
Exchange(r) ==
    With(Resume(SendData([r.w EXCEPT !.ev = <<>>], <<0>>), r.stack),
         LAMBDA sent :
            Deliver(sent, SolPacket(sent.w,
                                    SolIn(0, sent.w.con.myseq, 1, 0, <<>>))))

(* The console after n such exchanges *)
RECURSIVE Exchanged(_, _)
Exchanged(r, n) ==
    IF n = 0 \/ r.w.con.broken THEN r
    ELSE Exchanged(Exchange(r), n - 1)

(* The budgets of the runs of the console; the runs start with myseq =
   StartSeq, so that they reach the wrap of the sequence number *)
StartSeq == 14
ConsoleWire == 6
ConsoleDepth == 2
ConsoleCalls == 2
ConsoleRecv == 2
ConsoleExpiries == 1

(* The runs start with the console activated and StartSeq packets
   exchanged, or with the reply to Activate Payload still to come *)
InitConsole ==
    \E r \in {Exchanged(Activated, StartSeq), Activating} :
        StartFrom(r, NoPkt, "init",
                  [wire |-> Len(r.w.wire) + ConsoleWire,
                   depth |-> ConsoleDepth, timeouts |-> ConsoleExpiries,
                   calls |-> ConsoleCalls, recv |-> ConsoleRecv])

(* The bytes a call hands over: they name the call (the budget left) and
   their place in it *)
Bytes(call, n) == [i \in 1..n |-> 10 * call + i]

InputSizes == {1, MaxOut + 1}

(* What the BMC can send to the console: data, new or repeated, with the
   flags it may carry; acknowledgements of the packet in flight, of another
   and of none, positive, negative and partial; both in one packet *)
InData == {<<>>, <<1>>, <<1, 2, 3, 4, 5, 6>>}

NewRemSeq(con) == (con.remseq % 15) + 1

OtherSeq(con) == (con.myseq % 15) + 1

SolInputs(con) ==
    {SolIn(seq, 0, 0, flags, data) :
        seq \in {NewRemSeq(con), con.remseq} \ {0},
        flags \in {0, 16, 32}, data \in InData}
    \cup {SolIn(0, ack, count, flags, <<>>) :
            ack \in {con.myseq, OtherSeq(con), 0},
            count \in {0, 1},
            flags \in {0, 64, 80, 96, 68, 16}}
    \cup {SolIn(NewRemSeq(con), con.myseq, count, flags, <<1>>) :
            count \in {0, 1}, flags \in {0, 64}}

(* An SOL packet of the BMC is read and handled *)
RecvSolData ==
    /\ console.t = "console"
    /\ \E p \in SolInputs(console) :
          Receive(SolPacket(session, p), "RecvSolData")

(* The BMC's reply to Activate Payload is read and handled: _got_session
   goes on after its raw_command *)
RecvActivated ==
    /\ console.t = "console"
    /\ ~console.connected
    /\ \E i \in 1..Len(session.request_entry) :
          session.request_entry[i][3] = 72
    /\ Receive(ActivateReply(session), "RecvActivated")

(* send_data(data), called by the caller or by a callback the event loop
   runs (the iohandler, a thread of the caller) *)
CallSendData ==
    /\ InEventLoop
    /\ console.t = "console"
    /\ limits.calls > 0
    /\ Len(wire) < limits.wire
    /\ \E n \in InputSizes, rnd \in Jitter :
          Commit(Resume(SendData(
                            [World(rnd, FALSE) EXCEPT !.ev =
                                <<[e |-> "send_data", a |-> "None", n |-> n,
                                   d |-> Bytes(limits.calls, n)]>>],
                            Bytes(limits.calls, n)),
                        stack),
                 "CallSendData", NoPkt)

(* send_break() *)
CallSendBreak ==
    /\ InEventLoop
    /\ console.t = "console"
    /\ limits.calls > 0
    /\ Len(wire) < limits.wire
    /\ \E rnd \in Jitter :
          Commit(Resume(SendBreak(
                            [World(rnd, FALSE) EXCEPT !.ev =
                                <<[e |-> "send_break", a |-> "None",
                                   n |-> 0, d |-> <<>>]>>]),
                        stack),
                 "CallSendBreak", NoPkt)

(* The expiry of the inner wait of the retry loop of _sendoutput (src
   lines 284-286) *)
SolRetryExpires ==
    /\ stack # <<>> /\ Head(stack).k = "ack_wait"
    /\ limits.timeouts > 0
    /\ Len(wire) < limits.wire
    /\ \E rnd \in Jitter :
          Commit(Resume(World(rnd, FALSE), Tail(stack)),
                 "SolRetryExpires", NoPkt)

NextConsole ==
    \/ RecvActivated
    \/ RecvSolData
    \/ CallSendData
    \/ CallSendBreak
    \/ SolRetryExpires

SpecConsole == InitConsole /\ [][NextConsole]_vars

---------------------------------------------------------------------------
(* Properties *)

Received == lastpkt.t = "packet"

(* C1: the session context becomes ESTABLISHED only in a step that handles a
   RAKP4 message while the context is EXPECTINGRAKP4, the message carrying
   the current tag, status 0, the local session id and an integrity check
   value equal to the HMAC under SIK of (own random, pending session id,
   BMC GUID); the step sets sessionid to pendingsessionid, and the first
   packet of the session, if the step transmits one, carries sequence
   number 1 (else sequencenumber is left at 1). *)
EstablishedOnlyByRakp4 ==
    [][session'.sessioncontext = "ESTABLISHED"
       /\ session.sessioncontext # "ESTABLISHED"
       => /\ laststep' = "RecvRakp4"
          /\ session.sessioncontext = "EXPECTINGRAKP4"
          /\ lastpkt'.t = "packet"
          /\ lastpkt'.ptype = PT_rakp4
          /\ lastpkt'.payload.tag = session.rmcptag
          /\ lastpkt'.payload.status = 0
          /\ lastpkt'.payload.localsid = session.localsid
          /\ lastpkt'.payload.authcode =
                Trunc(Hmac(session.sik,
                           [rand |-> session.randombytes,
                            psid |-> session.pendingsessionid,
                            guid |-> session.remoteguid],
                           session.currhashlib),
                      session.currhashlen)
          /\ session'.sessionid = session.pendingsessionid
          /\ IF Len(wire') > Len(wire)
             THEN wire'[Len(wire) + 1].seq = 1
             ELSE session'.sequencenumber = 1]_vars

EstablishedByRakp4 ==
    /\ laststep = "RecvRakp4"
    /\ Received
    /\ session.sessioncontext = "ESTABLISHED"
    /\ session.sessionid = BmcSid
    /\ wire[Len(wire)].seq = 1

(* The RAKP2 message of the latest step passed the context, tag, status and
   session id tests of _got_rakp2 (pre is the session before the step) *)
Rakp2Examined(pre, pkt) ==
    /\ pkt.t = "packet"
    /\ pkt.ptype = PT_rakp2
    /\ pre.sessioncontext \in {"EXPECTINGRAKP2", "EXPECTINGRAKP4"}
    /\ pkt.payload.tag = pre.rmcptag
    /\ pkt.payload.status = 0
    /\ pkt.payload.localsid = pre.localsid

(* HMAC(password, local sid || pending sid || own random || BMC random ||
   BMC GUID || role || user name) *)
Rakp2Hmac(pre, pkt) ==
    Hmac(pre.password,
         [lsid |-> pre.localsid, psid |-> pre.pendingsessionid,
          rand |-> pre.randombytes, rrand |-> pkt.payload.rrand,
          guid |-> pkt.payload.guid, role |-> NameOnly + pre.privlevel,
          user |-> UserId],
         pre.currhashlib)

Sent(w1, w2, type) ==
    \E i \in Len(w1) + 1 .. Len(w2) : w2[i].ptype = type

(* C2: a step that handles a RAKP2 message whose HMAC differs from the one
   computed from the password sets the context to FAILED, hands
   {'error': 'Incorrect password provided'} to onlogon, leaves SIK and K1
   as they were and transmits no RAKP3; and no step taken in context FAILED
   transmits a RAKP3. *)
WrongPasswordFails ==
    [][/\ laststep' = "RecvRakp2"
          /\ Rakp2Examined(session, lastpkt')
          /\ lastpkt'.payload.hash # Rakp2Hmac(session, lastpkt')
          => /\ session'.sessioncontext = "FAILED"
             /\ events' # <<>>
             /\ events'[1] = [e |-> "onlogon", n |-> 0,
                              a |-> "Incorrect password provided"]
             /\ \A i \in 1..Len(events') :
                    events'[i].e = "waiter" =>
                        events'[i].p =
                            [error |-> "Incorrect password provided"]
             /\ session'.sik = session.sik
             /\ session'.k1 = session.k1
             /\ ~Sent(wire, wire', PT_rakp3)
       /\ (session.sessioncontext = "FAILED"
             => ~Sent(wire, wire', PT_rakp3))]_vars

WrongPasswordFailed ==
    /\ laststep = "RecvRakp2"
    /\ Received
    /\ lastpkt.payload.dev = "password"
    /\ session.sessioncontext = "FAILED"
    /\ logons = <<[error |-> "Incorrect password provided"]>>
    /\ session.k1 = NoKey

(* The run handed a payload to _parse_ipmi_payload or to the SOL branch *)
HandedOn(ev) ==
    \E i \in 1..Len(ev) :
        ev[i].e \in {"_parse_ipmi_payload", "sol_payload", "sol_handler"}

(* C3: whenever a step hands the payload of an RMCP+ packet (authtype 6) to
   _parse_ipmi_payload or to the SOL branch, the packet has the integrity
   bit set, K1 was derived before the step, and the packet's trailing
   authcode equals the HMAC under K1 of the packet from the authtype byte
   on, truncated to the negotiated length.  A packet that fails any of the
   three is recorded as dropped and hands nothing on. *)
AcceptedIpmi2Authenticated ==
    [][HandedOn(events') /\ lastpkt'.at = 6
       => /\ lastpkt'.t = "packet"
          /\ lastpkt'.ptype \in {PT_ipmi, PT_sol}
          /\ lastpkt'.integ
          /\ session.k1 # NoKey
          /\ lastpkt'.authcode =
                Trunc(Hmac(session.k1,
                           [at |-> lastpkt'.at, ptype |-> lastpkt'.ptype,
                            integ |-> lastpkt'.integ, enc |-> lastpkt'.enc,
                            sid |-> lastpkt'.sid, seq |-> lastpkt'.seq,
                            payload |-> lastpkt'.payload],
                           session.currhashlib),
                      session.currhashlen)]_vars

AcceptedIpmi2Reply ==
    /\ laststep = "RecvIpmi2"
    /\ Received
    /\ HandedOn(events)
    /\ session.sessioncontext = "ESTABLISHED"
    /\ session.lastresponse # NoResp

(* C4: of two packets transmitted one after the other in context
   ESTABLISHED the later one carries the greater session sequence number,
   be it a new request, a retransmission by the retry timer or a queued
   payload sent later. *)
OutboundSequenceIncreases ==
    \A i \in 1..(Len(wire) - 1) :
        wire[i].ctx = "ESTABLISHED" /\ wire[i + 1].ctx = "ESTABLISHED"
        => wire[i + 1].seq > wire[i].seq

RetransmittedWithHigherSequence ==
    /\ laststep = "Timeout"
    /\ Len(wire) >= 2
    /\ wire[Len(wire)].ctx = "ESTABLISHED"
    /\ wire[Len(wire) - 1].ctx = "ESTABLISHED"
    /\ wire[Len(wire)].payload = wire[Len(wire) - 1].payload
    /\ wire[Len(wire)].seq > wire[Len(wire) - 1].seq

(* a is a lower sequence number than the recorded one *)
Lower(a, recorded) == recorded # NoSeq /\ Lt32(a, recorded)

(* C5: on the IPMI 1.5 and the RMCP+ receive path alike, a packet is handed
   on with a sequence number lower than that of the packet accepted last
   only if that number was 0xFFFFFFFF, and with 0xFFFFFFFF accepted last no
   packet is dropped for its sequence number. *)
InboundSequenceMonotonic ==
    [][/\ (HandedOn(events') /\ lastpkt'.t = "packet"
           /\ Lower(lastpkt'.seq, session.accepted)
           => session.accepted = MaxU32)
       /\ (lastpkt'.t = "dropped" /\ lastpkt'.why = "seq"
           => session.accepted # MaxU32)]_vars

(* C6: a step whose packet is dropped because its session id, its authtype
   or its authcode (MD5 authcode on the 1.5 path, HMAC on the RMCP+ path)
   does not match calls nothing: neither ipmicallback nor the SOL handler
   nor onlogon runs, and no error is raised. *)
MismatchDroppedSilently ==
    lastpkt.t = "dropped" /\ lastpkt.why \in {"sid", "authtype", "authcode"}
    => events = <<>>

HmacMismatchDropped ==
    /\ laststep = "RecvIpmi2"
    /\ lastpkt = [t |-> "dropped", at |-> 6, why |-> "authcode"]
    /\ session.sessioncontext = "ESTABLISHED"
    /\ session.ipmicallback = "_generic_callback"
    /\ events = <<>>

(* C7: the callback given as onlogon is called exactly once per login: at
   no time has it been called twice, and once the login has ended
   (logging is off) it has been called. *)
OnlogonExactlyOnce ==
    /\ Len(logons) <= 1
    /\ ~session.logging => Len(logons) = 1

(* The messages of a login, by what the client transmitted *)
Kind(p) ==
    CASE p.ptype = PT_openreq -> "open"
      [] p.ptype = PT_rakp1 -> "rakp1"
      [] p.ptype = PT_rakp3 -> "rakp3"
      [] p.ptype = PT_ipmi /\ p.payload.cmd = 56 -> "authcap"
      [] p.ptype = PT_ipmi /\ p.payload.cmd = 59 -> "setpriv"
      [] OTHER -> "other"

Kinds(ws) == [i \in 1..Len(ws) |-> Kind(ws[i])]

HappyOrder == <<"authcap", "open", "rakp1", "rakp3", "setpriv">>

(* pkt was handled to the end and is the successful answer of an IPMI 2.0
   BMC to the i-th message of HappyOrder, pre being the session before *)
Answer(pre, pkt, i) ==
    /\ pkt.t = "packet"
    /\ CASE i = 1 -> /\ pkt.at = 0
                     /\ pkt.payload.t = "ipmirsp"
                     /\ \E k \in 1..Len(pre.request_entry) :
                           pkt.payload =
                             IpmiReply(FALSE, pre.request_entry[k][1],
                                       pre.request_entry[k][2], 56, 0,
                                       <<1, 132, 0, 2>>)
         [] i = 2 -> /\ pkt.ptype = PT_openrsp
                     /\ pkt.payload = OpenRsp(pre, "none")
         [] i = 3 -> /\ pkt.ptype = PT_rakp2
                     /\ pkt.payload = Rakp2(pre, "none", 0)
         [] i = 4 -> /\ pkt.ptype = PT_rakp4
                     /\ pkt.payload = Rakp4(pre, "none", 0)
         [] i = 5 -> /\ pkt.at = 6
                     /\ pkt.ptype = PT_ipmi
                     /\ \E k \in 1..Len(pre.request_entry) :
                           pkt.payload =
                             IpmiReply(FALSE, pre.request_entry[k][1],
                                       pre.request_entry[k][2], 59, 0, <<>>)

(* C8: in a login in which the BMC supports IPMI 2.0 and answers every
   message successfully the client transmits Get Channel Authentication
   Capabilities, Open Session Request, RAKP1, RAKP3, Set Session Privilege
   Level in this order: the step that handles the answer to one message
   transmits the next one and nothing else, no other step takes the
   exchange one message further, Set Session Privilege Level is built in
   context ESTABLISHED, and the callback gets {'success': True} in the step
   that handles the successful answer to Set Session Privilege Level and in
   no other. *)
HappyLoginOrder ==
    [][/\ \A i \in 1..4 :
            /\ Kinds(wire) = SubSeq(HappyOrder, 1, i)
               /\ Answer(session, lastpkt', i)
               => /\ Kinds(wire') = SubSeq(HappyOrder, 1, i + 1)
                  /\ logons' = <<>>
            /\ Kinds(wire) = SubSeq(HappyOrder, 1, i)
               /\ Kinds(wire') = SubSeq(HappyOrder, 1, i + 1)
               => Answer(session, lastpkt', i)
       /\ Kinds(wire') = HappyOrder
          => wire'[5].ctx = "ESTABLISHED"
       /\ Kinds(wire) = HappyOrder /\ Answer(session, lastpkt', 5)
          /\ logons = <<>>
          => logons' = <<SuccessParam>> /\ wire' = wire
       /\ logons' # logons /\ logons'[Len(logons')] = SuccessParam
          => Answer(session, lastpkt', 5)]_vars

HappyLoginDone ==
    /\ Kinds(wire) = HappyOrder
    /\ logons = <<SuccessParam>>
    /\ laststep = "RecvIpmi2"
    /\ Received
    /\ lastpkt.payload.cmd = 59 /\ lastpkt.payload.code = 0
    /\ session.sessioncontext = "ESTABLISHED"
    /\ ~session.logging

(* C9: a retry timer that fires in context EXPECTINGRAKP2 or EXPECTINGRAKP4
   with a payload outstanding and the retry budget not used up starts the
   login over: the step transmits one packet, Get Channel Authentication
   Capabilities, built from re-initialised session state (no session id, no
   sequence number, authtype 0, no context), it leaves the session
   re-initialised with one logon try less, and it does not transmit the
   outstanding RAKP1 or RAKP3 payload again. *)
RakpTimeoutRestartsLogin ==
    [][limits'.timeouts # limits.timeouts
       /\ session.sessioncontext \in {"EXPECTINGRAKP2", "EXPECTINGRAKP4"}
       /\ session.lastpayload # NoPayload
       /\ session.timeout + TimeoutStep <= session.maxtimeout
       => /\ Len(wire') = Len(wire) + 1
          /\ LET sent == wire'[Len(wire')]
             IN  /\ Kind(sent) = "authcap"
                 /\ sent.payload # session.lastpayload
                 /\ sent.ptype \notin {PT_rakp1, PT_rakp3}
                 /\ sent.sid = 0 /\ sent.seq = 0 /\ sent.authtype = 0
                 /\ sent.key = NoKey /\ sent.ctx = "None"
                 /\ session'.lastpayload = sent.payload
          /\ session'.sessioncontext = "None"
          /\ session'.k1 = NoKey
          /\ session'.sessionid = 0
          /\ session'.authtype = 0
          /\ session'.ipmiversion = 15
          /\ session'.rmcptag = 1
          /\ session'.localsid = LocalSidBase
          /\ session'.logged = 0 /\ session'.logging
          /\ session'.timeout \in {InitialTimeout + j : j \in Jitter}
          /\ session'.logontries = session.logontries - 1
          /\ session'.ipmicallback = "_got_channel_auth_cap"]_vars

RestartedAfterRakp3 ==
    /\ laststep = "Timeout"
    /\ Len(wire) >= 5
    /\ Kind(wire[Len(wire)]) = "authcap"
    /\ wire[Len(wire) - 1].ptype = PT_rakp3
    /\ wire[Len(wire) - 1].ctx = "EXPECTINGRAKP4"
    /\ session.sessioncontext = "None"
    /\ session.logontries = LogonTries - 1

(* C9 as stated: every retry timer that fires in context EXPECTINGRAKP2 or
   EXPECTINGRAKP4 with a payload outstanding starts the login over with
   Get Channel Authentication Capabilities from re-initialised state. *)
RakpTimeoutAlwaysRestartsLogin ==
    [][limits'.timeouts # limits.timeouts
       /\ session.sessioncontext \in {"EXPECTINGRAKP2", "EXPECTINGRAKP4"}
       /\ session.lastpayload # NoPayload
       => /\ Len(wire') = Len(wire) + 1
          /\ Kind(wire'[Len(wire')]) = "authcap"
          /\ session'.sessioncontext = "None"
          /\ session'.k1 = NoKey
          /\ session'.sessionid = 0]_vars

(* The session is broken and out of the keepalive registry *)
Broken(s) == s.broken /\ s.logged = 0 /\ ~s.keepalive

(* The timeout error reached the callback of the command: the caller's
   callback was called with it, or _generic_callback stored it *)
TimeoutReported(pre, post, ev) ==
    \/ /\ pre.ipmicallback = "callback"
       /\ ev = <<[e |-> "callback", a |-> "timeout", n |-> 65535]>>
    \/ /\ pre.ipmicallback = "_generic_callback"
       /\ post.lastresponse = TimeoutResponse

(* C10: on an ESTABLISHED session with a command outstanding, the expiry of
   the retry timer that takes the timeout above maxtimeout hands
   {'error': 'timeout', 'code': 0xffff} to the command's callback, transmits
   nothing and forgets the payload, so that no later expiry sends it
   again; the step goes on into _mark_broken, whose logout waits for the
   deadline of the command, and when that deadline passes with no packet
   having reset the session in between (logged still set) the session is
   broken: broken set, logged 0, out of the keepalive registry. *)
TimeoutGivesUp ==
    [][/\ limits'.timeouts # limits.timeouts
          /\ session.sessioncontext = "ESTABLISHED"
          /\ session.lastpayload # NoPayload
          /\ session.timeout + TimeoutStep > session.maxtimeout
          => /\ TimeoutReported(session, session', events')
             /\ wire' = wire
             /\ session'.lastpayload = NoPayload
             /\ \/ Broken(session')
                \/ /\ Len(stack') >= 4
                   /\ stack'[1].k = "_cmdwait"
                   /\ stack'[2].k = "raw_command_send"
                   /\ stack'[2].a.command = 60
                   /\ stack'[3].k = "logout_end"
                   /\ stack'[4].k = "mark_broken_end"
       /\ limits'.timeouts # limits.timeouts
          /\ session.lastpayload = NoPayload
          => wire' = wire
       /\ laststep' = "CommandExpires"
          /\ session.logged # 0
          /\ Len(stack) >= 4
          /\ stack[1].k = "_cmdwait"
          /\ stack[3].k = "logout_end"
          /\ stack[4].k = "mark_broken_end"
          => /\ Broken(session')
             /\ Len(wire') = Len(wire) + 1
             /\ wire'[Len(wire')].payload.cmd = 60]_vars

CommandTimedOut ==
    /\ laststep = "Timeout"
    /\ session.sessioncontext = "ESTABLISHED"
    /\ events = <<[e |-> "callback", a |-> "timeout", n |-> 65535]>>
    /\ logons = <<SuccessParam>>
    /\ session.lastpayload = NoPayload
    /\ session.timeout > session.maxtimeout
    /\ wire[Len(wire)].payload.cmd = 1

(* C11: once broken is set it stays set, and every raw_command the caller
   issues on a broken session raises 'Session no longer connected' and
   transmits nothing, whatever packets arrived in between. *)
BrokenStaysDisconnected ==
    [][session.broken
       => /\ session'.broken
          /\ (laststep' = "CallRawCommand"
              => /\ wire' = wire
                 /\ events' = <<[e |-> "raise",
                                 a |-> "Session no longer connected",
                                 n |-> 0]>>)]_vars

(* The step called the caller's callback with a reply of the BMC *)
CalledBack(ev) ==
    \E i \in 1..Len(ev) : ev[i].e = "callback" /\ ev[i].a # "timeout"

(* C12: a step calls the completion callback with a reply only while the
   command is outstanding (sent, neither answered nor reported as timed
   out) and only for the reply to that command: the packet handled carries
   the netfn, seqlun and command the session expects, and the callback in
   charge is the one the command was issued with. *)
CallbackExactlyOnce ==
    [][CalledBack(events')
       => /\ lastpkt'.t = "packet"
          /\ lastpkt'.payload.t = "ipmirsp"
          /\ session.lastpayload # NoPayload
          /\ session.ipmicallback = "callback"
          /\ lastpkt'.payload.netfn = session.expectednetfn
          /\ lastpkt'.payload.seqlun = session.seqlun
          /\ lastpkt'.payload.cmd = session.expectedcmd]_vars

(* An IPMI request was transmitted and the entry recorded for it is still
   in request_entry: no reply to it was accepted *)
Unanswered(s, w) ==
    \E i \in 1..Len(w) :
        /\ w[i].ptype = PT_ipmi
        /\ w[i].payload.t = "ipmi"
        /\ LookupRequestEntry(s, <<w[i].payload.netfn + 1,
                                   w[i].payload.seqlun, w[i].payload.cmd>>)

(* The payloads the step put on the wire *)
Transmitted(w1, w2) == [i \in 1..(Len(w2) - Len(w1)) |-> w2[Len(w1) + i].payload]

(* q2 is q1 with payloads appended at the end *)
Extends(q1, q2) == Len(q2) >= Len(q1) /\ SubSeq(q2, 1, Len(q1)) = q1

(* C13: while a payload awaits its answer (lastpayload set) a further
   payload handed to send_payload is not transmitted but appended to
   pendingpayloads; while a transmitted IPMI request is unanswered, no
   payload and no command the caller hands to the session is transmitted;
   the queue loses entries only at its head, one in a step, in a step that
   handles an IPMI reply or a SOL packet, and the entry taken is
   transmitted in that step. *)
OneRequestInFlight ==
    [][/\ laststep' = "CallSendPayload" /\ session.lastpayload # NoPayload
          => /\ wire' = wire
             /\ Len(session'.pendingpayloads) =
                   Len(session.pendingpayloads) + 1
             /\ Extends(session.pendingpayloads, session'.pendingpayloads)
             /\ session'.pendingpayloads[Len(session'.pendingpayloads)].ptype
                   = PT_sol
             /\ session'.lastpayload = session.lastpayload
       /\ laststep' \in {"CallSendPayload", "CallRawCommand"}
          /\ Unanswered(session, wire)
          => wire' = wire
       /\ ~Extends(session.pendingpayloads, session'.pendingpayloads)
          => /\ Extends(Tail(session.pendingpayloads),
                        session'.pendingpayloads)
             /\ laststep' \in {"RecvIpmi2", "RecvIpmi15", "RecvSol"}
             /\ lastpkt'.t = "packet"
             /\ \E i \in 1..Len(Transmitted(wire, wire')) :
                   Transmitted(wire, wire')[i] =
                       Head(session.pendingpayloads).payload]_vars

(* A queued SOL payload went out in the step that handled the reply to the
   command in flight *)
QueuedPayloadSent ==
    /\ laststep = "RecvIpmi2"
    /\ CalledBack(events)
    /\ wire[Len(wire)].payload.t = "sol"
    /\ session.pendingpayloads = <<>>

(* The SOL data packets among the packets the step put on the wire:
   payload type SOL, acknowledging nothing *)
DataPackets(w1, w2) ==
    {i \in (Len(w1) + 1)..Len(w2) :
        w2[i].ptype = PT_sol /\ w2[i].payload.ack = 0}

(* C14: every SOL data packet put on the wire carries a sequence number in
   1..15, which is either the one of the packet sent before (a
   retransmission) or that number plus one, 1 after 15; 0 is never used. *)
SolSequenceInRange ==
    [][\A i \in DataPackets(wire, wire') :
          /\ wire'[i].payload.seq \in 1..15
          /\ \/ wire'[i].payload.seq = console.myseq
             \/ wire'[i].payload.seq =
                   IF console.myseq = 15 THEN 1 ELSE console.myseq + 1]_vars

(* The packet after the one numbered 15 went out with number 1 *)
SequenceWrapped ==
    /\ console.myseq = 1
    /\ console.awaitingack
    /\ wire[Len(wire)].ptype = PT_sol
    /\ wire[Len(wire)].payload.seq = 1
    /\ wire[Len(wire)].payload.ack = 0
    /\ \E i \in 1..(Len(wire) - 1) :
          /\ wire[i].ptype = PT_sol
          /\ wire[i].payload.seq = 15
          /\ wire[i].payload.ack = 0
          /\ \A j \in (i + 1)..(Len(wire) - 1) : wire[j].payload.ack # 0

(* The step put a data packet with a sequence number of its own on the
   wire *)
NewDataPacket(con, w1, w2) ==
    \E i \in DataPackets(w1, w2) : w2[i].payload.seq # con.myseq

(* C15: a data packet with a new sequence number goes out only when no
   packet awaits its acknowledgement: awaitingack is false before the step,
   or the step handles the packet of the BMC that acknowledges the packet
   in flight; and a step transmits at most one such packet. *)
OneSolPacketInFlight ==
    [][/\ NewDataPacket(console, wire, wire')
          => \/ ~console.awaitingack
             \/ /\ laststep' = "RecvSolData"
                /\ lastpkt'.t = "packet"
                /\ lastpkt'.payload.ack = console.myseq
       /\ Cardinality({i \in DataPackets(wire, wire') :
                          wire'[i].payload.seq # console.myseq}) <= 1]_vars

(* send_data was called while a packet awaited its acknowledgement: the
   bytes wait in pendingoutput *)
DataHeldBack ==
    /\ laststep = "CallSendData"
    /\ console.awaitingack
    /\ stack # <<>>
    /\ Head(stack).k = "ack_wait"
    /\ events[1].e = "send_data"
    /\ console.pendingoutput = <<Text(events[1].d)>>
    /\ wire[Len(wire)].payload = console.lastpayload

(* pendingoutput as one stream: the bytes of the text elements in order, a
   break standing in it as -1 *)
RECURSIVE Flat(_)
Flat(q) ==
    IF q = <<>> THEN <<>>
    ELSE (IF q[1].brk THEN <<-1>> ELSE q[1].d) \o Flat(Tail(q))

(* What the step sent for the first time, as a stream *)
Out(con, w1, w2) ==
    IF NewDataPacket(con, w1, w2)
    THEN LET i == CHOOSE j \in DataPackets(w1, w2) :
                      w2[j].payload.seq # con.myseq
         IN  IF Bit(w2[i].payload.flags, 4) THEN <<-1>> \o w2[i].payload.data
             ELSE w2[i].payload.data
    ELSE <<>>

(* The step handled the packet of the BMC in lastpkt' with the console as
   SOL handler, and the packet speaks of the packet sent last *)
AckHandled ==
    /\ laststep' = "RecvSolData"
    /\ lastpkt'.t = "packet"
    /\ session.sol_handler
    /\ console.myseq # 0
    /\ lastpkt'.payload.ack = console.myseq

(* S.payload[4 + R.ackcount:] *)
Unacked(con, p) ==
    SubSeq(con.lastpayload.data, p.count + 1, Len(con.lastpayload.data))

(* The step left awaitingack false, or set for the packet it sent itself;
   what it sent and what it left in pendingoutput is the stream head
   followed by what pendingoutput held *)
AckDone(head) ==
    /\ ~console'.awaitingack \/ NewDataPacket(console, wire, wire')
    /\ Out(console, wire, wire') \o Flat(console'.pendingoutput) =
          head \o Flat(console.pendingoutput)

(* C16 as stated: after a packet R whose ack field is the number of the
   packet S sent last, awaitingack is false (or set again for the next
   packet, which the same handler sends), and if R has the NACK flag
   without the break flag the bytes S.payload[4 + R.ackcount:] stand ahead
   of all that was queued and are transmitted first. *)
NackRequeuesAlways ==
    [][AckHandled
       => AckDone(IF Nacked(lastpkt'.payload)
                     /\ ~BreakDetected(lastpkt'.payload)
                  THEN Unacked(console, lastpkt'.payload) ELSE <<>>)]_vars

(* C16: the same, except for a NACK that carries the deactivated flag:
   then nothing is put back, the console is marked inactive and broken. *)
NackRequeues ==
    [][AckHandled
       => IF /\ Nacked(lastpkt'.payload)
             /\ ~BreakDetected(lastpkt'.payload)
             /\ Deactivated(lastpkt'.payload)
          THEN /\ console'.broken
               /\ ~console'.activated
               /\ wire' = wire \/ ~NewDataPacket(console, wire, wire')
          ELSE AckDone(IF Nacked(lastpkt'.payload)
                          /\ ~BreakDetected(lastpkt'.payload)
                       THEN Unacked(console, lastpkt'.payload)
                       ELSE <<>>)]_vars

(* A partial NACK arrived while more bytes were queued: the unacknowledged
   byte went out again ahead of them *)
RequeuedAhead ==
    /\ laststep = "RecvSolData"
    /\ lastpkt.t = "packet"
    /\ Nacked(lastpkt.payload)
    /\ ~BreakDetected(lastpkt.payload)
    /\ ~Deactivated(lastpkt.payload)
    /\ lastpkt.payload.count = 1
    /\ console.awaitingack
    /\ Len(wire) >= 2
    /\ wire[Len(wire)].ptype = PT_sol
    /\ wire[Len(wire) - 1].ptype = PT_sol
    /\ wire[Len(wire) - 1].payload.seq = lastpkt.payload.ack
    /\ Len(wire[Len(wire) - 1].payload.data) = 2
    /\ Len(wire[Len(wire)].payload.data) = 2
    /\ wire[Len(wire)].payload.data[1] = wire[Len(wire) - 1].payload.data[2]

(* The bytes the step handed to the iohandler, in order *)
RECURSIVE Delivered(_)
Delivered(ev) ==
    IF ev = <<>> THEN <<>>
    ELSE (IF ev[1].e = "out_data" THEN ev[1].d ELSE <<>>)
         \o Delivered(Tail(ev))

(* The step handled the SOL packet in lastpkt' with the console as handler *)
SolHandled ==
    /\ laststep' = "RecvSolData"
    /\ lastpkt'.t = "packet"
    /\ \E i \in 1..Len(events') : events'[i].e = "sol_handler"

(* C17: when the BMC sends a packet again under the sequence number it used
   last (newseq = remseq), the iohandler receives exactly the bytes of the
   packet beyond the first lastsize ones, max(0, length - lastsize) bytes:
   lengths 1 then 6 under one number deliver 1 byte and then the 5 new
   ones. *)
RetryDeliversNewTail ==
    [][SolHandled
       /\ lastpkt'.payload.seq # 0
       /\ lastpkt'.payload.seq = console.remseq
       => Delivered(events') =
              NewDataOfRetry(lastpkt'.payload.data, console.lastsize)]_vars

(* The step put the SOL payload p on the wire or, a command of the session
   awaiting its answer, appended it to pendingpayloads *)
AckSent(p) ==
    \/ \E i \in (Len(wire) + 1)..Len(wire') :
          wire'[i].ptype = PT_sol /\ wire'[i].payload = p
    \/ \E i \in 1..Len(session'.pendingpayloads) :
          /\ session'.pendingpayloads[i].ptype = PT_sol
          /\ session'.pendingpayloads[i].payload = p
          /\ session.lastpayload # NoPayload

(* C18 as stated: every SOL payload the console handles is answered with
   the acknowledgement (0, remseq, receivedlen, 0), remseq being the remote
   sequence number after the packet and receivedlen the length of all its
   data, for a retry as well. *)
EveryPayloadAcked ==
    [][SolHandled
       => AckSent(SolAck(console'.remseq, Len(lastpkt'.payload.data)))]_vars

(* C18: every SOL payload the console handles that carries a sequence
   number other than 0 is answered with the acknowledgement (0, remseq,
   receivedlen, 0), for a retry as well; a payload with sequence number 0
   (an acknowledgement of the BMC) is answered with no acknowledgement. *)
DataPayloadAcked ==
    [][SolHandled
       => IF lastpkt'.payload.seq # 0
          THEN /\ console'.remseq = lastpkt'.payload.seq
               /\ AckSent(SolAck(console'.remseq,
                                 Len(lastpkt'.payload.data)))
          ELSE /\ console'.remseq = console.remseq
               /\ \A i \in (Len(wire) + 1)..Len(wire') :
                     wire'[i].ptype = PT_sol => wire'[i].payload.ack = 0]_vars

(* A packet sent again with more data was acknowledged with the length of
   all its data *)
RetryAcked ==
    /\ laststep = "RecvSolData"
    /\ lastpkt.t = "packet"
    /\ lastpkt.payload.seq = console.remseq
    /\ Len(lastpkt.payload.data) = 6
    /\ \E i \in 1..Len(events) :
          events[i].e = "out_data" /\ events[i].n < 6
    /\ Len(wire) >= 1
    /\ \E i \in 1..Len(wire) :
          /\ wire[i].ptype = PT_sol
          /\ wire[i].payload = SolAck(lastpkt.payload.seq, 6)

(* The step handed an event of kind e to the iohandler *)
Surfaced(e) == \E i \in 1..Len(events') : events'[i].e = e

(* C19: whenever a SOL packet the console handles has the deactivated flag
   set, the console marks SOL inactive and hands an error to the iohandler;
   whenever it has the powered-off flag set and not the deactivated one,
   the console hands an info event to the iohandler and stays alive, not
   broken and with its session. *)
StatusFlagsHonoured ==
    [][SolHandled
       => /\ Deactivated(lastpkt'.payload)
             => ~console'.activated /\ Surfaced("out_error")
          /\ PoweredOff(lastpkt'.payload) /\ ~Deactivated(lastpkt'.payload)
             => /\ Surfaced("out_info")
                /\ ~console'.broken
                /\ console'.has_session]_vars

(* What the step's call of send_data or send_break handed to the console,
   as a stream: the bytes, a break standing in it as -1 *)
RECURSIVE Handed(_)
Handed(ev) ==
    IF ev = <<>> THEN <<>>
    ELSE (IF ev[1].e = "send_data" THEN ev[1].d
          ELSE IF ev[1].e = "send_break" THEN <<-1>> ELSE <<>>)
         \o Handed(Tail(ev))

(* The step handled a NACK of the packet sent last *)
NackHandled ==
    /\ AckHandled
    /\ Nacked(lastpkt'.payload)
    /\ ~BreakDetected(lastpkt'.payload)

(* C20: every SOL data packet put on the wire carries at most maxoutcount
   data bytes and a break goes in a packet without data; in every step
   other than the handling of a NACK, of a console that is not broken, what
   the step sends for the first time followed by what it leaves in
   pendingoutput is what pendingoutput held followed by what the step's
   call of send_data or send_break handed over: the packets carry the bytes
   of the calls in call order, none lost, none twice, also those written
   before the reply to Activate Payload came. *)
StreamInOrder ==
    [][/\ \A i \in DataPackets(wire, wire') :
             /\ Len(wire'[i].payload.data) <= console'.maxoutcount
             /\ Bit(wire'[i].payload.flags, 4)
                => wire'[i].payload.data = <<>>
       /\ ~console.broken /\ ~console'.broken /\ ~NackHandled
          => Out(console, wire, wire') \o Flat(console'.pendingoutput) =
                Flat(console.pendingoutput) \o Handed(events')]_vars

(* MaxOut + 1 bytes were written before the reply to Activate Payload came:
   the step that handled the reply sent the first MaxOut of them with
   sequence number 1 and left the last one in pendingoutput *)
WrittenEarlySentInOrder ==
    /\ laststep = "RecvActivated"
    /\ console.connected
    /\ console.maxoutcount = MaxOut
    /\ console.myseq = 1
    /\ console.awaitingack
    /\ Len(wire) >= 2
    /\ wire[Len(wire) - 1].ptype = PT_ipmi
    /\ wire[Len(wire) - 1].payload.cmd = 72
    /\ wire[Len(wire)].ptype = PT_sol
    /\ wire[Len(wire)].payload.seq = 1
    /\ Len(wire[Len(wire)].payload.data) = MaxOut
    /\ wire[Len(wire)].payload.data \o Flat(console.pendingoutput) =
          Bytes(ConsoleCalls, MaxOut + 1)

(* The packets of payload type ptype the step put on the wire *)
NewPackets(ptype) ==
    {i \in (Len(wire) + 1)..Len(wire') : wire'[i].ptype = ptype}

(* The step handled an Open Session Response with a status other than 0:
   the packet passed the tests of context and tag *)
OpenRefused ==
    /\ laststep' = "RecvOpenRsp"
    /\ lastpkt'.t = "packet"
    /\ lastpkt'.payload.status # 0

(* The step called onlogon with an error *)
LogonFailed ==
    \E i \in 1..Len(events') :
        events'[i].e = "onlogon" /\ events'[i].a # "None"

(* C23: an Open Session Response with a status other than 0 handled while
   attemptedhash is 256 makes the session send one Open Session Request
   with the SHA-1 descriptor, with currhashlen 12, and report no error;
   handled while attemptedhash is 1 it makes the session report an error
   through onlogon and send no Open Session Request. *)
OpenFallsBackToSha1 ==
    [][OpenRefused
       => IF session.attemptedhash = 256
          THEN /\ session'.attemptedhash = 1
               /\ session'.currhashlen = 12
               /\ session'.currhashlib = 1
               /\ Len(wire') = Len(wire) + 1
               /\ wire'[Len(wire')].ptype = PT_openreq
               /\ wire'[Len(wire')].payload.hash = 1
               /\ ~LogonFailed
               /\ logons' = logons
          ELSE /\ LogonFailed
               /\ NewPackets(PT_openreq) = {}]_vars

(* The BMC refused the SHA-256 proposal and the request went out again with
   SHA-1 *)
Sha1Proposed ==
    /\ laststep = "RecvOpenRsp"
    /\ lastpkt.t = "packet"
    /\ lastpkt.payload.status # 0
    /\ session.attemptedhash = 1
    /\ session.currhashlen = 12
    /\ session.sessioncontext = "OPENSESSION"
    /\ Len(wire) >= 2
    /\ wire[Len(wire)].ptype = PT_openreq
    /\ wire[Len(wire)].payload.hash = 1
    /\ \E i \in 1..(Len(wire) - 1) :
          wire[i].ptype = PT_openreq /\ wire[i].payload.hash = 256
    /\ logons = <<>>

(* C25: a session built with an explicit privlevel (autopriv false; the
   model's explicit level is 4) keeps that privlevel whatever the BMC
   answers, a RAKP2 status 9 and a completion code 0x80 of Set Session
   Privilege Level included. *)
ExplicitPrivilegeKept ==
    ~session.autopriv => session.privlevel = 4

(* The step read a reply to Get Channel Authentication Capabilities with
   completion code 0xcc *)
AuthCapRefused ==
    /\ laststep' \in {"RecvIpmi15", "RecvIpmi2"}
    /\ lastpkt'.t = "packet"
    /\ lastpkt'.payload.t = "ipmirsp"
    /\ ~lastpkt'.payload.short
    /\ lastpkt'.payload.cmd = 56
    /\ lastpkt'.payload.code = 204

(* The Get Channel Authentication Capabilities requests the step sent *)
NewAuthCapRequests ==
    {i \in (Len(wire) + 1)..Len(wire') :
        /\ wire'[i].ptype = PT_ipmi
        /\ wire'[i].payload.t = "ipmi"
        /\ wire'[i].payload.cmd = 56}

(* The Get Channel Authentication Capabilities requests that wait in
   pendingpayloads *)
AuthCapPending(s) ==
    {i \in 1..Len(s.pendingpayloads) :
        /\ s.pendingpayloads[i].payload.t = "ipmi"
        /\ s.pendingpayloads[i].payload.cmd = 56}

(* How many Get Channel Authentication Capabilities requests the step
   made, sent or queued behind a payload in flight *)
AuthCapMade ==
    Cardinality(NewAuthCapRequests) + Cardinality(AuthCapPending(session'))
        - Cardinality(AuthCapPending(session))

(* The first data byte of the request made last *)
AuthCapForm ==
    IF NewAuthCapRequests # {}
    THEN wire'[Len(wire')].payload.data[1]
    ELSE session'.pendingpayloads[Len(session'.pendingpayloads)]
             .payload.data[1]

(* C26: a reply 0xcc to Get Channel Authentication Capabilities makes the
   session ask again only while ipmi15only is not set: the step then makes
   one request, in the IPMI 1.5 form (first data byte 0x0e), and sets
   ipmi15only; a reply 0xcc read while ipmi15only is set, the reply to the
   request in the 1.5 form included, makes the session ask nothing. *)
FallbackOnlyOnce ==
    [][AuthCapRefused
       => /\ session.ipmi15only = 1 => AuthCapMade = 0
          /\ AuthCapMade > 0
                => /\ session.ipmi15only = 0
                   /\ session'.ipmi15only = 1
                   /\ AuthCapMade = 1
                   /\ AuthCapForm = 14]_vars

(* The BMC answered the request in the 1.5 form with 0xcc too: the session
   sent nothing *)
SecondRefusalUnanswered ==
    /\ laststep = "RecvIpmi15"
    /\ lastpkt.t = "packet"
    /\ lastpkt.payload.t = "ipmirsp"
    /\ lastpkt.payload.cmd = 56
    /\ lastpkt.payload.code = 204
    /\ lastpkt.payload.seqlun = session.lastpayload.seqlun
    /\ session.ipmi15only = 1
    /\ session.lastpayload.data[1] = 14
    /\ wire[Len(wire)].payload.data[1] = 14
    /\ Cardinality({i \in 1..Len(wire) : wire[i].payload.data[1] = 14}) = 1

(* The timer fired on an Open Session Request in flight that the session
   does not give up *)
OpenTimedOut ==
    /\ laststep' = "Timeout"
    /\ session.sessioncontext = "OPENSESSION"
    /\ session.lastpayload # NoPayload
    /\ session.lastpayload.t = "open"
    /\ session.timeout + TimeoutStep <= session.maxtimeout

(* C30 as stated: a timeout in the context OPENSESSION sends the Open
   Session Request again as it was, with the same message tag and the same
   local session id. *)
OpenResentVerbatim ==
    [][OpenTimedOut
       => /\ Len(wire') = Len(wire) + 1
          /\ wire'[Len(wire')].ptype = PT_openreq
          /\ wire'[Len(wire')].payload = session.lastpayload]_vars

(* C30: a timeout in the context OPENSESSION sends a new Open Session
   Request: the message tag and the local session id are each one higher
   than in the request that timed out, the algorithm proposal is the
   same. *)
OpenResentRenumbered ==
    [][OpenTimedOut
       => /\ Len(wire') = Len(wire) + 1
          /\ wire'[Len(wire')].ptype = PT_openreq
          /\ wire'[Len(wire')].payload.tag = session.lastpayload.tag + 1
          /\ wire'[Len(wire')].payload.localsid =
                session.lastpayload.localsid + 1
          /\ wire'[Len(wire')].payload.hash = session.lastpayload.hash
          /\ session'.rmcptag = session.rmcptag + 1
          /\ session'.localsid = session.localsid + 1
          /\ session'.sessioncontext = "OPENSESSION"]_vars

(* An Open Session Request timed out and went out again under the next tag
   and the next local session id *)
OpenRequestRenewed ==
    /\ laststep = "Timeout"
    /\ session.sessioncontext = "OPENSESSION"
    /\ Len(wire) >= 2
    /\ wire[Len(wire)].ptype = PT_openreq
    /\ wire[Len(wire) - 1].ptype = PT_openreq
    /\ wire[Len(wire)].payload.tag = wire[Len(wire) - 1].payload.tag + 1
    /\ wire[Len(wire)].payload.localsid =
          wire[Len(wire) - 1].payload.localsid + 1

---------------------------------------------------------------------------
(* The login against a BMC that supports IPMI 2.0, refuses the role of
   administrator in RAKP2 (status 9 or 0x0d) and accepts every other
   role.  It answers each message as asked, and before the session gives
   up: the retry timer of the session may fire DownTimeouts times in all,
   but not so that timeout exceeds maxtimeout. *)
DownWire == 24
DownTimeouts == 2

InitDowngrade ==
    \E autopriv \in BOOLEAN, rnd \in Jitter :
       StartFrom(Construct(autopriv, "onlogon", rnd), NoPkt, "init",
                 [wire |-> DownWire, depth |-> MaxDepth,
                  timeouts |-> DownTimeouts, calls |-> 0, recv |-> -1])

(* The request entries of command cmd *)
Entries(w, cmd) ==
    {e \in {w.request_entry[i] : i \in 1..Len(w.request_entry)} :
        e[3] = cmd}

(* The BMC answers Get Channel Authentication Capabilities: IPMI 2.0 *)
BmcAuthCap ==
    /\ session.sessioncontext = "None"
    /\ \E e \in Entries(session, 56) :
          Receive(Ipmi15Packet(session, 0, U32(2),
                               IpmiReply(FALSE, e[1], e[2], e[3], 0,
                                         <<1, 132, 0, 2>>),
                               "none"),
                  "RecvIpmi15")

(* The BMC answers the Open Session Request *)
BmcOpens ==
    /\ session.sessioncontext = "OPENSESSION"
    /\ Receive(Packet("bmc", 6, PT_openrsp, FALSE, FALSE, 0, U32(0), NoKey,
                      OpenRsp(session, "none")),
               "RecvOpenRsp")

(* The BMC answers RAKP1: the role of administrator is refused *)
BmcRakp2 ==
    /\ session.sessioncontext = "EXPECTINGRAKP2"
    /\ \E m \in IF session.privlevel = 4
                THEN {Rakp2(session, "status", 9),
                      Rakp2(session, "status", 13)}
                ELSE {Rakp2(session, "none", 0)} :
          Receive(Packet("bmc", 6, PT_rakp2, FALSE, FALSE, 0, U32(0), NoKey,
                         m),
                  "RecvRakp2")

(* The BMC answers RAKP3 *)
BmcRakp4 ==
    /\ session.sessioncontext = "EXPECTINGRAKP4"
    /\ Receive(Packet("bmc", 6, PT_rakp4, FALSE, FALSE, 0, U32(0), NoKey,
                      Rakp4(session, "none", 0)),
               "RecvRakp4")

(* The BMC grants the privilege level asked for *)
BmcGrants ==
    /\ session.sessioncontext = "ESTABLISHED"
    /\ \E e \in Entries(session, 59) :
          Receive(SessionPacket(session, PT_ipmi, U32(2),
                                IpmiReply(FALSE, e[1], e[2], e[3], 0, <<>>),
                                "none"),
                  "RecvIpmi2")

(* The retry timer fires before the answer came *)
AnswerLate ==
    /\ session.timeout + TimeoutStep <= session.maxtimeout
    /\ Timeout

NextDowngrade ==
    \/ BmcAuthCap
    \/ BmcOpens
    \/ BmcRakp2
    \/ BmcRakp4
    \/ BmcGrants
    \/ AnswerLate

(* The session waits and the BMC owes it an answer: the guards of the five
   answers *)
Owes ==
    /\ InEventLoop
    /\ Len(wire) < limits.wire
    /\ \/ session.sessioncontext = "None" /\ Entries(session, 56) # {}
       \/ session.sessioncontext \in {"OPENSESSION", "EXPECTINGRAKP2",
                                      "EXPECTINGRAKP4"}
       \/ session.sessioncontext = "ESTABLISHED"
          /\ Entries(session, 59) # {}

(* An answer the BMC owes arrives in the end: the weak fairness of the five
   answers, WF_vars(BmcAuthCap \/ ... \/ BmcGrants), with the guard Owes
   written in the place of ENABLED *)
AnswersArrive ==
    []<>(~Owes) \/ []<><<laststep' \in RecvSteps>>_vars

SpecDowngrade ==
    /\ InitDowngrade
    /\ [][NextDowngrade]_vars
    /\ AnswersArrive

(* The step handled a RAKP2 message with status 9 or 0x0d in a session of
   privlevel 4 with the automatic downgrade *)
AdminRefused ==
    /\ laststep' = "RecvRakp2"
    /\ lastpkt'.t = "packet"
    /\ lastpkt'.payload.status \in {9, 13}
    /\ session.privlevel = 4
    /\ session.autopriv

(* C24: a RAKP2 message with status 9 or 0x0d that the session handles
   while privlevel is 4 and autopriv is set makes the session set privlevel
   to 3 and start the login again with Get Channel Authentication
   Capabilities for privilege 3, without a call of onlogon; and against a
   BMC that refuses only the role of administrator such a session reaches
   the context ESTABLISHED with privlevel 3. *)
DowngradeLogsIn ==
    /\ [][AdminRefused
          => /\ session'.privlevel = 3
             /\ session'.sessioncontext = "None"
             /\ session'.logging
             /\ Len(wire') = Len(wire) + 1
             /\ wire'[Len(wire')].payload.t = "ipmi"
             /\ wire'[Len(wire')].payload.cmd = 56
             /\ wire'[Len(wire')].payload.data[2] = 3
             /\ ~Surfaced("onlogon")
             /\ logons' = logons]_vars
    /\ session.autopriv
          ~> (session.sessioncontext = "ESTABLISHED" /\ session.privlevel = 3)

(* The session was refused as administrator, logged in again and is
   established as operator *)
EstablishedAsOperator ==
    /\ session.autopriv
    /\ session.sessioncontext = "ESTABLISHED"
    /\ session.privlevel = 3
    /\ \E i \in 1..Len(wire) :
          /\ wire[i].payload.t = "ipmi"
          /\ wire[i].payload.cmd = 56
          /\ wire[i].payload.data[2] = 4
    /\ \E i \in 1..Len(wire) :
          /\ wire[i].payload.t = "ipmi"
          /\ wire[i].payload.cmd = 56
          /\ wire[i].payload.data[2] = 3

---------------------------------------------------------------------------
(* The activation of the SOL payload.  The runs start right after
   _got_session sent Activate Payload, with force unset or set in
   Console.__init__; the BMC answers the Activate Payload and Deactivate
   Payload commands with one of ActivateCodes. *)
ActivateCodes == {0, 128, 129}

ActivateWire == 5
ActivateCalls == 1
ActivateRecv == 1

(* The request entries of the payload commands that await a reply *)
PayloadRequests(w) ==
    {e \in {w.request_entry[i] : i \in 1..Len(w.request_entry)} :
        e[3] \in {72, 73}}

PayloadReply(w, e, code) ==
    SessionPacket(w, PT_ipmi, U32(2),
                  IpmiReply(FALSE, e[1], e[2], e[3], code,
                            IF e[3] = 72 /\ code = 0 THEN ActivateData
                            ELSE <<>>),
                  "none")

InitActivate ==
    \E force \in BOOLEAN :
        StartFrom(ActivatingAs(force), NoPkt, "init",
                  [wire |-> Len(ActivatingAs(force).w.wire) + ActivateWire,
                   depth |-> ConsoleDepth, timeouts |-> ConsoleExpiries,
                   calls |-> ActivateCalls, recv |-> ActivateRecv])

(* The BMC's reply to Activate Payload or to Deactivate Payload is read and
   handled: _got_session goes on after its raw_command *)
RecvPayloadReply ==
    /\ console.t = "console"
    /\ ~console.connected
    /\ \E e \in PayloadRequests(session), code \in ActivateCodes :
          Receive(PayloadReply(session, e, code), "RecvPayloadReply")

NextActivate ==
    \/ RecvPayloadReply
    \/ RecvSolData
    \/ CallSendData
    \/ CallSendBreak
    \/ SolRetryExpires

SpecActivate == InitActivate /\ [][NextActivate]_vars

(* The step handled the BMC's reply, with completion code code, to the
   payload command cmd *)
PayloadAnswered(cmd, code) ==
    /\ laststep' = "RecvPayloadReply"
    /\ lastpkt'.t = "packet"
    /\ lastpkt'.payload.cmd = cmd
    /\ lastpkt'.payload.code = code

(* The step put the IPMI command cmd on the wire *)
Commanded(cmd) ==
    \E i \in NewPackets(PT_ipmi) : wire'[i].payload.cmd = cmd

(* The step put the IPMI command cmd on the wire and nothing else *)
OnlyCommanded(cmd) ==
    /\ Len(wire') = Len(wire) + 1
    /\ Commanded(cmd)

(* The step handed error to the iohandler *)
ErrorPrinted(error) ==
    \E i \in 1..Len(events') :
        events'[i].e = "out_error" /\ events'[i].a = error

(* C22: while the console activates, a reply with code 0x80 to Activate
   Payload makes a console with force set that has not deactivated before
   send one Deactivate Payload command (0x49) and report nothing, and the
   reply with code 0 to that command makes it send one further Activate
   Payload (0x48); a console that has deactivated before, or without force,
   reports 'SOL Session active for another client' and sends nothing; no
   other step of the activation sends Deactivate Payload, and
   retriedpayload, once set, stays set. *)
ForcedDeactivationOnce ==
    [][/\ (PayloadAnswered(72, 128)
           => IF console.force_session /\ console.retriedpayload = 0
              THEN /\ OnlyCommanded(73)
                   /\ console'.retriedpayload = 1
                   /\ ~console'.broken
                   /\ ~Surfaced("out_error")
              ELSE /\ wire' = wire
                   /\ ErrorPrinted("SOL Session active for another client")
                   /\ console'.broken)
        /\ ((PayloadAnswered(73, 0) /\ ~console.broken)
           => (OnlyCommanded(72) /\ ~Surfaced("out_error")))
        /\ ((~console.activated /\ Commanded(73))
           => /\ PayloadAnswered(72, 128)
              /\ console.force_session
              /\ console.retriedpayload = 0)
        /\ (console.retriedpayload = 1 => console'.retriedpayload = 1)]_vars

(* A console with force set got 0x80, deactivated, activated again and got
   0x80 again: it reported the other client's session *)
SecondBusyReported ==
    /\ laststep = "RecvPayloadReply"
    /\ console.force_session
    /\ console.retriedpayload = 1
    /\ console.broken
    /\ \E i \in 1..Len(events) :
          events[i].a = "SOL Session active for another client"
    /\ Len(wire) >= 3
    /\ wire[Len(wire) - 2].payload.cmd = 72
    /\ wire[Len(wire) - 1].payload.cmd = 73
    /\ wire[Len(wire)].payload.cmd = 72

---------------------------------------------------------------------------
(* The retry loop of _sendoutput against a BMC that stays silent.  The
   runs start with the console activated and nothing sent yet; the budget
   of expiries lets the loop run to its end. *)
LostWire == 8
LostCalls == 1
LostRecv == 1
LostExpiries == 6

InitLost ==
    StartFrom(Activated, NoPkt, "init",
              [wire |-> Len(Activated.w.wire) + LostWire,
               depth |-> ConsoleDepth, timeouts |-> LostExpiries,
               calls |-> LostCalls, recv |-> LostRecv])

NextLost ==
    \/ RecvSolData
    \/ CallSendData
    \/ SolRetryExpires

SpecLost == InitLost /\ [][NextLost]_vars

(* The transmissions of the payload p *)
Transmissions(p) ==
    {i \in 1..Len(wire) : wire[i].ptype = PT_sol /\ wire[i].payload = p}

(* C21: as long as the console has read no packet of the BMC, the wire
   holds at most 5 transmissions of any SOL data payload. *)
FiveAttemptsAtMost ==
    limits.recv = LostRecv
       => \A i \in 1..Len(wire) :
             wire[i].ptype = PT_sol /\ wire[i].payload.seq # 0
                => Cardinality(Transmissions(wire[i].payload)) <= 5

---------------------------------------------------------------------------
(* The SDR reader (src/pyghmi/ipmi/sdr.py, class SDR).  get_sdr reads the
   repository record by record with Get SDR (netfn 0x0a, command 0x23);
   every raw_command of the Command object returns the reply of the BMC
   before the method goes on, so one step of the model is one round of the
   inner loop of get_sdr: the reservation it may ask for first, the Get SDR
   request, and all the method does with the reply up to the next request.
   The reader has no cache directory and shared_sdrs holds nothing for the
   BMC. *)
MaxRecords == 3      \* records in the repository
MaxRefusals == 3     \* replies with a completion code other than 0
SdrLen == 17         \* bytes of a record

(* A record of the repository as its bytes: record id (2 bytes), SDR
   version 0x51, record type, number of bytes that follow, then the key
   bytes b0 b1 b2 and zeros *)
SdrRecord(rectype, b0, b1, b2) ==
    <<0, 0, 81, rectype, SdrLen - 5, b0, b1, b2>>
        \o [i \in 1..(SdrLen - 8) |-> 0]

(* The records a BMC may hold: event-only sensor records (type 3) of the
   sensors 32.1.0 and 32.2.0, the first of them also with reserved bits of
   the LUN byte set, a FRU locator (type 0x11) of FRU 1 and an OEM record
   (type 0xc0) *)
SdrRecords ==
    {SdrRecord(3, 32, 0, 1), SdrRecord(3, 32, 4, 1), SdrRecord(3, 32, 0, 2),
     SdrRecord(17, 0, 1, 0), SdrRecord(192, 32, 0, 1)}

Repositories ==
    UNION {[1..n -> SdrRecords] : n \in 1..MaxRecords}

TYPE_UNKNOWN == 0
TYPE_SENSOR == 1
TYPE_FRU == 2

(* SDREntry.__init__: sdrtype by record type *)
SdrType(entrybytes) ==
    IF entrybytes[4] \in {1, 2, 3} THEN TYPE_SENSOR
    ELSE IF entrybytes[4] = 17 THEN TYPE_FRU
    ELSE TYPE_UNKNOWN

(* str(n) of a number below 1000, as its characters *)
DigitChars == <<"0", "1", "2", "3", "4", "5", "6", "7", "8", "9">>

Str(n) ==
    (IF n >= 100 THEN <<DigitChars[(n \div 100) + 1]>> ELSE <<>>)
    \o (IF n >= 10 THEN <<DigitChars[((n \div 10) % 10) + 1]>> ELSE <<>>)
    \o <<DigitChars[(n % 10) + 1]>>

(* '{0}.{1}.{2}'.format(sensor_owner, sensor_number, sensor_lun) with
   _common_decode's sensor_owner = entry[0], sensor_lun = entry[1] & 0x03,
   sensor_number = entry[2], entry being entrybytes[5:] *)
SensorId(entrybytes) ==
    [str |-> Str(entrybytes[6]) \o <<".">> \o Str(entrybytes[8]) \o <<".">>
             \o Str(entrybytes[7] % 4)]

(* fru_decode: fru_number = entry[1], a key of another type than the
   sensor ids *)
FruNumber(entrybytes) == [int |-> entrybytes[7]]

(* d[k] = v of a dict *)
DictSet(d, k, v) == [x \in DOMAIN d \cup {k} |-> IF x = k THEN v ELSE d[x]]

(* A reader that forgets a sensor id at its second record and keeps no
   list of the broken ids *)
AddSdrForgetful(s, sdrbytes) ==
    IF sdrbytes[3] # 81
    THEN [s EXCEPT !.pc = "failed", !.exc = "NotImplementedError"]
    ELSE IF SdrType(sdrbytes) = TYPE_SENSOR
    THEN IF SensorId(sdrbytes) \in DOMAIN s.sensors
         THEN [s EXCEPT !.sensors =
                  [x \in DOMAIN @ \ {SensorId(sdrbytes)} |-> @[x]]]
         ELSE [s EXCEPT !.sensors = DictSet(@, SensorId(sdrbytes), sdrbytes)]
    ELSE IF SdrType(sdrbytes) = TYPE_FRU
    THEN IF FruNumber(sdrbytes) \in DOMAIN s.fru THEN s
         ELSE [s EXCEPT !.fru = DictSet(@, FruNumber(sdrbytes), sdrbytes)]
    ELSE s

(* SDR.add_sdr (a record of another version makes SDREntry raise) *)
AddSdr(s, sdrbytes) ==
    IF sdrbytes[3] # 81
    THEN [s EXCEPT !.pc = "failed", !.exc = "NotImplementedError"]
    ELSE IF SdrType(sdrbytes) = TYPE_SENSOR
    THEN IF SensorId(sdrbytes) \in DOMAIN s.sensors
         THEN [s EXCEPT !.broken_sensor_ids = @ \cup {SensorId(sdrbytes)}]
         ELSE [s EXCEPT !.sensors = DictSet(@, SensorId(sdrbytes), sdrbytes)]
    ELSE IF SdrType(sdrbytes) = TYPE_FRU
    THEN IF FruNumber(sdrbytes) \in DOMAIN s.fru
         THEN [s EXCEPT !.broken_sensor_ids = @ \cup {FruNumber(sdrbytes)}]
         ELSE [s EXCEPT !.fru = DictSet(@, FruNumber(sdrbytes), sdrbytes)]
    ELSE s

(* SDR.get_sdr after its outer loop: 'del self.sensors[sid]' for every
   broken id, a KeyError passed over *)
SdrFinish(s) ==
    [s EXCEPT !.sensors = [x \in DOMAIN @ \ s.broken_sensor_ids |-> @[x]],
              !.pc = "done"]

(* SDR.get_sdr, the outer loop after a record was fetched wholly *)
SdrRecordDone(s) ==
    LET a == AddSdr(s, s.sdrdata)
        b == [a EXCEPT !.offset = 0,
                       !.size = IF @ # 255 THEN 5 ELSE @]
    IN  IF a.pc = "failed" THEN a
        ELSE IF b.newrecid = b.recid
        THEN [b EXCEPT !.pc = "failed", !.exc = "BmcErrorException"]
        ELSE IF b.newrecid = 65535
        THEN SdrFinish([b EXCEPT !.recid = 65535])
        ELSE [b EXCEPT !.recid = b.newrecid, !.newrecid = 0,
                       !.currlen = 0, !.sdrdata = <<>>]

(* SDR.get_sdr, the inner loop after a Get SDR command completed with
   code 0 and data *)
SdrGotData(s, data) ==
    IF Len(data) < 7 /\ s.currlen = 0
    THEN [s EXCEPT !.pc = "failed", !.exc = "IndexError"]
    ELSE
    LET a == [s EXCEPT
                 !.newrecid = IF @ = 0 THEN data[2] * 256 + data[1] ELSE @,
                 !.currlen = IF @ = 0 THEN data[7] + 5 ELSE @,
                 !.sdrdata = @ \o SubSeq(data, 3, Len(data)),
                 !.offset = @ + s.size]
        b == [a EXCEPT !.size = IF @ = 5 /\ a.offset = 5
                                THEN a.chunksize ELSE @]
    IN  IF a.offset >= a.currlen THEN SdrRecordDone(a)
        ELSE [b EXCEPT !.size = IF b.offset + @ > b.currlen
                                THEN b.currlen - b.offset ELSE @]

(* SDR.get_sdr, the inner loop after Get SDR returned code and data *)
SdrGot(s, code, data) ==
    IF code = 202
    THEN IF s.size = 255 THEN [s EXCEPT !.size = 5]
         ELSE IF s.size > 5
         THEN [s EXCEPT !.size = (@ \div 2) + 2,
                        !.chunksize = (s.size \div 2) + 2]
         ELSE s
    ELSE IF code = 197 THEN [s EXCEPT !.rsvid = 0]
    ELSE IF code # 0
    THEN [s EXCEPT !.pc = "failed", !.exc = "IpmiException"]
    ELSE SdrGotData(s, data)

(* 'if size != 0xff and rsvid == 0' *)
NeedsReservation(s) == s.size # 255 /\ s.rsvid = 0

(* rqdata of Get SDR: reservation id, record id, offset, size *)
SdrRequest(s) ==
    [cmd |-> 35, rsvid |-> s.rsvid, recid |-> s.recid, offset |-> s.offset,
     size |-> s.size]

(* get_sdr_reservation's command *)
ReserveRequest ==
    [cmd |-> 34, rsvid |-> 0, recid |-> 0, offset |-> 0, size |-> 0]

(* What the BMC returns for a request it accepts: the id of the next
   record, 0xffff after the last, and the bytes asked for *)
SdrData(repo, rq) ==
    LET rec == repo[rq.recid + 1]
        next == IF rq.recid + 1 = Len(repo) THEN 65535 ELSE rq.recid + 1
        last == IF rq.offset + rq.size > Len(rec) THEN Len(rec)
                ELSE rq.offset + rq.size
    IN  <<next % 256, next \div 256>> \o SubSeq(rec, rq.offset + 1, last)

(* SDR.get_sdr, one round of the inner loop: get_sdr_reservation, which
   raises on a completion code other than 0, the Get SDR command and the
   handling of its reply.  cmds are the commands of the round, code the
   completion code of its last command. *)
GetSdrRound(s, rsvcode, code) ==
    IF NeedsReservation(s) /\ rsvcode # 0
    THEN [s EXCEPT !.pc = "failed", !.exc = "IpmiException",
                   !.cmds = <<ReserveRequest>>, !.code = rsvcode]
    ELSE LET a == IF NeedsReservation(s)
                  THEN [s EXCEPT !.rsvid = s.nextrsv, !.nextrsv = @ + 1,
                                 !.cmds = <<ReserveRequest>>]
                  ELSE [s EXCEPT !.cmds = <<>>]
             b == [a EXCEPT !.cmds = Append(@, SdrRequest(a)),
                            !.code = code]
         IN  SdrGot(b, code, IF code = 0 THEN SdrData(s.repo, SdrRequest(a))
                             ELSE <<>>)

(* The reader inside get_sdr, before its first Get SDR: SDR.__init__ set
   sensors and fru, get_sdr its locals; repo is what the BMC holds,
   nextrsv the reservation id it hands out next, refusals the budget of
   refusing replies *)
NewSdr(repo) ==
    [pc |-> "reading", exc |-> "None", recid |-> 0, rsvid |-> 0,
     offset |-> 0, size |-> 255, chunksize |-> 128, newrecid |-> 0,
     currlen |-> 0, sdrdata |-> <<>>, sensors |-> <<>>, fru |-> <<>>,
     broken_sensor_ids |-> {}, cmds |-> <<>>, code |-> 0, repo |-> repo,
     nextrsv |-> 1, refusals |-> MaxRefusals]

InitSdr ==
    \E repo \in Repositories :
        StartWith(LoggedIn, NoPkt, "init",
                  [wire |-> 0, depth |-> 0, timeouts |-> 0, calls |-> 0,
                   recv |-> 0],
                  NewSdr(repo))

(* A round of get_sdr leaves the session as it is in the model *)
SdrStep(s, step) ==
    /\ sdr' = s
    /\ laststep' = step
    /\ UNCHANGED <<session, wire, events, logons, stack, lastpkt, limits,
                   console>>

(* The BMC accepts the commands of the round *)
SdrAnswered ==
    /\ sdr.pc = "reading"
    /\ SdrStep(GetSdrRound(sdr, 0, 0), "SdrAnswered")

(* The BMC refuses the Get SDR command: request too big (0xca),
   reservation cancelled (0xc5), or another code *)
SdrRefused ==
    /\ sdr.pc = "reading"
    /\ sdr.refusals > 0
    /\ \E code \in {202, 197, 193} :
          SdrStep(GetSdrRound([sdr EXCEPT !.refusals = @ - 1], 0, code),
                  "SdrRefused")

(* The BMC refuses Reserve SDR Repository *)
ReservationRefused ==
    /\ sdr.pc = "reading"
    /\ sdr.refusals > 0
    /\ NeedsReservation(sdr)
    /\ SdrStep(GetSdrRound([sdr EXCEPT !.refusals = @ - 1], 193, 0),
               "ReservationRefused")

NextSdr ==
    \/ SdrAnswered
    \/ SdrRefused
    \/ ReservationRefused

SpecSdr == InitSdr /\ [][NextSdr]_vars

(* The Get SDR request of the round that ended last *)
LastRequest(s) == s.cmds[Len(s.cmds)]

(* The reader is about to repeat a Get SDR that returned code *)
Repeats(code) ==
    /\ sdr.pc = "reading"
    /\ sdr.cmds # <<>>
    /\ sdr.code = code
    /\ sdr' # sdr

(* C27: after a Get SDR that returned 0xc5 the next round starts with
   Reserve SDR Repository (0x0a/0x22), whatever the size of the request,
   and the Get SDR that follows it asks for the same record and offset. *)
ReservationRenewed ==
    [][Repeats(197)
       => /\ sdr'.cmds[1].cmd = 34
          /\ Len(sdr'.cmds) = 2
             => /\ sdr'.cmds[2].cmd = 35
                /\ sdr'.cmds[2].recid = LastRequest(sdr).recid
                /\ sdr'.cmds[2].offset = LastRequest(sdr).offset]_vars

(* C28: after a Get SDR that returned 0xca the next Get SDR asks for the
   same record and offset with a smaller size that is not above the chunk
   size, and, unless the refused size was the whole-record size 0xff, is
   half the refused size plus 2. *)
RequestShrinks ==
    [][Repeats(202) /\ LastRequest(sdr').cmd = 35
       => /\ LastRequest(sdr').recid = LastRequest(sdr).recid
          /\ LastRequest(sdr').offset = LastRequest(sdr).offset
          /\ LastRequest(sdr').size < LastRequest(sdr).size
          /\ LastRequest(sdr').size <= sdr.chunksize
          /\ LastRequest(sdr).size # 255
                => LastRequest(sdr').size =
                      (LastRequest(sdr).size \div 2) + 2]_vars

(* The records of the repository that make the sensor id *)
RecordsOf(id) ==
    {i \in 1..Len(sdr.repo) :
        SdrType(sdr.repo[i]) = TYPE_SENSOR /\ SensorId(sdr.repo[i]) = id}

(* C29: when get_sdr has read the repository to its end, no sensor id that
   two or more records of the repository make is a key of sensors, however
   many records make it and in whatever order they come. *)
DuplicatesRemoved ==
    sdr.pc = "done"
       => \A i \in 1..Len(sdr.repo) :
             /\ SdrType(sdr.repo[i]) = TYPE_SENSOR
             /\ Cardinality(RecordsOf(SensorId(sdr.repo[i]))) >= 2
             => SensorId(sdr.repo[i]) \notin DOMAIN sdr.sensors

(* A repository read to its end in which three records make one sensor
   id, two of them with different bytes *)
TripleRemoved ==
    /\ sdr.pc = "done"
    /\ Len(sdr.repo) = 3
    /\ Cardinality(RecordsOf(SensorId(sdr.repo[1]))) = 3
    /\ sdr.repo[1] # sdr.repo[2]
    /\ sdr.sensors = <<>>
    /\ sdr.broken_sensor_ids = {SensorId(sdr.repo[1])}

---------------------------------------------------------------------------
(* The session logged in, one command after the other: the caller issues
   raw_command(netfn=6, command=1) with a callback, the BMC answers it with
   completion code 0, the retry timer may fire before an answer, and the
   next call goes on when the deadline in incommand has passed.  The budget
   of calls lets seqlun, which counts modulo 64, come round to the value it
   had at the first command. *)
TabooWire == 74
TabooCalls == 65
TabooTimeouts == 1

InitTaboo ==
    StartFrom(LoggedIn, NoPkt, "init",
              [wire |-> TabooWire, depth |-> MaxDepth,
               timeouts |-> TabooTimeouts, calls |-> TabooCalls,
               recv |-> -1])

(* The BMC answers the command in flight *)
BmcAnswers ==
    /\ session.lastpayload # NoPayload
    /\ session.lastpayload.t = "ipmi"
    /\ \E e \in Entries(session, session.lastpayload.cmd) :
          /\ e[2] = session.lastpayload.seqlun
          /\ Receive(SessionPacket(session, PT_ipmi, U32(2),
                                   IpmiReply(FALSE, e[1], e[2], e[3], 0,
                                             <<>>),
                                   "none"),
                     "RecvIpmi2")

(* The caller issues the next command when the one before was answered *)
CallsNext ==
    /\ session.lastpayload = NoPayload
    /\ CallRawCommand

(* The deadline in incommand passes after the answer *)
DeadlinePasses ==
    /\ session.lastpayload = NoPayload
    /\ CommandExpires

NextTaboo ==
    \/ CallsNext
    \/ DeadlinePasses
    \/ BmcAnswers
    \/ AnswerLate

SpecTaboo == InitTaboo /\ [][NextTaboo]_vars

(* The IPMI requests the step put on the wire *)
NewRequests ==
    {i \in (Len(wire) + 1)..Len(wire') :
        wire'[i].ptype = PT_ipmi /\ wire'[i].payload.t = "ipmi"}

(* The triple of request p was marked after a retransmission and its taboo
   has rounds left *)
IsTaboo(p) ==
    /\ <<p.netfn + 1, p.cmd, p.seqlun>> \in DOMAIN session.tabooseq
    /\ session.tabooseq[<<p.netfn + 1, p.cmd, p.seqlun>>] > 0

(* C31: once the reply to a retransmitted command marked its (netfn,
   command, seqlun) taboo, no later request of that netfn and command
   goes out with that seqlun while the taboo has rounds left (the
   retransmissions of the timer apart). *)
TabooHonoured ==
    [][laststep' # "Timeout"
       => \A i \in NewRequests : ~IsTaboo(wire'[i].payload)]_vars

(* The Open Session Requests on the wire, by position *)
OpenRequests ==
    {i \in 1..Len(wire) : wire[i].ptype = PT_openreq}

(* C32: no two Open Session Requests the session sent carry the same local
   session id, whatever happened between them (timeout, the proposal of
   SHA-1, a login started again). *)
LocalSidsDistinct ==
    \A i, j \in OpenRequests :
        i < j => wire[i].payload.localsid # wire[j].payload.localsid

(* The step handled an Open Session Response while the context was
   ESTABLISHED or FAILED *)
OpenRspOutsideLogin ==
    /\ laststep' = "RecvOpenRsp"
    /\ session.sessioncontext \in {"ESTABLISHED", "FAILED"}

(* C33: an Open Session Response that arrives while the context is
   ESTABLISHED or FAILED is ignored: nothing is sent, and the context, the
   session id of the BMC and the keys stay as they are. *)
OpenRspIgnoredOutsideLogin ==
    [][OpenRspOutsideLogin
       => /\ wire' = wire
          /\ session'.sessioncontext = session.sessioncontext
          /\ session'.pendingsessionid = session.pendingsessionid
          /\ session'.sik = session.sik
          /\ session'.k1 = session.k1]_vars

(* The step handled a RAKP4 message with status 2 that passed the context
   and tag tests while login retries were left *)
Rakp4InvalidSession ==
    /\ laststep' = "RecvRakp4"
    /\ lastpkt'.t = "packet"
    /\ lastpkt'.payload.status = 2
    /\ Rakp4Expected(session, lastpkt'.payload)
    /\ session.logontries # 0

(* C34: a RAKP4 message with status 2 handled while login retries are left
   makes the session start the login again and nothing else: onlogon is
   not called and the session is not marked broken. *)
Rakp4RestartsQuietly ==
    [][Rakp4InvalidSession
       => /\ session'.logontries = session.logontries - 1
          /\ NewAuthCapRequests # {}
          /\ ~Surfaced("onlogon")
          /\ logons' = logons
          /\ ~session'.broken]_vars

---------------------------------------------------------------------------
(* The session logged in sends a bridged command: the caller issues
   raw_command(netfn=6, command=1, bridge_request={...}) with a callback,
   and the BMC answers the outer 'send message' and the command itself. *)
BridgeWire == 9
BridgeCalls == 2
BridgeTimeouts == 1

InitBridge ==
    StartFrom(LoggedIn, NoPkt, "init",
              [wire |-> BridgeWire, depth |-> MaxDepth,
               timeouts |-> BridgeTimeouts, calls |-> BridgeCalls,
               recv |-> -1])

(* The caller issues raw_command with a bridge_request *)
CallBridged ==
    /\ CallerIdle
    /\ limits.calls > 0
    /\ Len(wire) < limits.wire
    /\ \E rnd \in Jitter :
          Commit(Resume(RawCommand(World(rnd, FALSE),
                                   [Cmd(6, 1, <<>>, TRUE, "callback")
                                       EXCEPT !.bridge = TRUE]),
                        stack),
                 "CallRawCommand", NoPkt)

NextBridge ==
    \/ CallBridged
    \/ RecvIpmi2
    \/ CommandExpires
    \/ Timeout

SpecBridge == InitBridge /\ [][NextBridge]_vars

(* The step handled the response to the outer 'send message' of the bridged
   request in flight, and the response reports a failure *)
BridgeFailed ==
    /\ laststep' = "RecvIpmi2"
    /\ lastpkt'.t = "packet"
    /\ lastpkt'.payload.t = "ipmirsp"
    /\ ~lastpkt'.payload.short
    /\ lastpkt'.payload.netfn = NetfnApplication + 1
    /\ lastpkt'.payload.cmd = IPMI_SEND_MESSAGE_CMD
    /\ LastByte(lastpkt'.payload) # 0
    /\ session.lastpayload # NoPayload
    /\ session.lastpayload.t = "ipmi"
    /\ session.lastpayload.bridge
    /\ session.lastpayload.seqlun = lastpkt'.payload.seqlun
    /\ LookupRequestEntry(session, <<NetfnApplication + 1,
                                     lastpkt'.payload.seqlun,
                                     IPMI_SEND_MESSAGE_CMD>>)

(* C35: after the response to the outer 'send message' of a bridged request
   reported a failure, neither of the two entries recorded for the request
   is in request_entry. *)
BridgeEntriesRemoved ==
    [][BridgeFailed
       => /\ ~LookupRequestEntry(session', <<NetfnApplication + 1,
                                            lastpkt'.payload.seqlun,
                                            IPMI_SEND_MESSAGE_CMD>>)
          /\ ~LookupRequestEntry(session', <<session.lastpayload.netfn + 1,
                                            session.lastpayload.seqlun,
                                            session.lastpayload.cmd>>)]_vars

(* The step dropped the packet it read at one of the tests of the session
   id, the authtype, the authcode or the sequence number *)
PacketDropped ==
    /\ laststep' \in RecvSteps
    /\ lastpkt'.t = "dropped"
    /\ lastpkt'.why \in {"sid", "authtype", "authcode", "seq"}

(* C36: a packet dropped for its session id, authtype, authcode or
   sequence number changes neither the highest remote sequence number the
   session stored nor the socket address of the peer it keeps. *)
DropLeavesSession ==
    [][PacketDropped
       => /\ session'.remseqnumber = session.remseqnumber
          /\ session'.sockaddr = session.sockaddr]_vars

---------------------------------------------------------------------------
(* The login against a BMC that answers Get Channel Authentication
   Capabilities and the Open Session Request and never answers RAKP1: the
   retry timer fires each time. *)
StallWire == 24
StallTimeouts == 6

InitStall ==
    \E autopriv \in BOOLEAN, rnd \in Jitter :
       StartFrom(Construct(autopriv, "onlogon", rnd), NoPkt, "init",
                 [wire |-> StallWire, depth |-> MaxDepth,
                  timeouts |-> StallTimeouts, calls |-> 0, recv |-> -1])

NextStall ==
    \/ BmcAuthCap
    \/ BmcOpens
    \/ Timeout

SpecStall == InitStall /\ [][NextStall]_vars

(* C37: the login is started again a bounded number of times: logontries,
   which login() sets to 5 and every restart lowers by one, never falls
   below 0, so that a login the BMC never completes ends with an error
   reported through onlogon and a broken session. *)
RestartsBounded ==
    session.logontries >= 0

---------------------------------------------------------------------------
(* The iohandler receives the error 'Connection lost' in this step *)
ConnectionLost ==
    \E i \in 1..Len(events') : events'[i].a = "Connection lost"

(* C38: the console reports 'Connection lost' only when the wait for the
   acknowledgement ran out with the sent SOL packet still unacknowledged:
   a step in which the console reads the acknowledgement of that packet
   reports no such error and leaves the console usable. *)
LostOnlyUnacknowledged ==
    [][ConnectionLost
       => /\ laststep' = "SolRetryExpires"
          /\ console.awaitingack]_vars

---------------------------------------------------------------------------
(* The login against the BMC of SpecDowngrade, whose replies outside a
   session carry the session sequence number 0 or a number of its own: it
   refuses the role of administrator in RAKP2, which makes _got_rakp2
   start the login again through login(), and reads each of its packets
   once. *)
RestartWire == 24
RestartTimeouts == 1

InitRestart ==
    \E autopriv \in BOOLEAN, rnd \in Jitter :
       StartFrom(Construct(autopriv, "onlogon", rnd), NoPkt, "init",
                 [wire |-> RestartWire, depth |-> MaxDepth,
                  timeouts |-> RestartTimeouts, calls |-> 0, recv |-> -1])

(* The BMC answers Get Channel Authentication Capabilities: authtype none,
   session id 0, sequence number seq *)
BmcAuthCapNumbered ==
    /\ session.sessioncontext = "None"
    /\ \E e \in Entries(session, 56), seq \in {0, 2} :
          Receive(Ipmi15Packet(session, 0, U32(seq),
                               IpmiReply(FALSE, e[1], e[2], e[3], 0,
                                         <<1, 132, 0, 2>>),
                               "none"),
                  "RecvIpmi15")

NextRestart ==
    \/ BmcAuthCapNumbered
    \/ BmcOpens
    \/ BmcRakp2
    \/ BmcRakp4
    \/ BmcGrants
    \/ AnswerLate

SpecRestart == InitRestart /\ [][NextRestart]_vars

(* C39: the first valid packet the session reads after it started the
   login again is accepted whatever sequence numbers it read before: the
   answer of the BMC to Get Channel Authentication Capabilities, the first
   packet of every login, is never dropped for its sequence number. *)
FirstPacketAccepted ==
    [][laststep' = "RecvIpmi15" /\ session.sessioncontext = "None"
       => ~(lastpkt'.t = "dropped" /\ lastpkt'.why = "seq")]_vars

---------------------------------------------------------------------------
(* The console against a network that may deliver an SOL packet of the BMC
   twice: the packet read last is read again, byte for byte and under the
   same session sequence number. *)
DupWire == 6
DupCalls == 1
DupRecv == 2
DupDepth == 3

InitDup ==
    StartFrom(Activated, NoPkt, "init",
              [wire |-> Len(Activated.w.wire) + DupWire,
               depth |-> DupDepth, timeouts |-> 0,
               calls |-> DupCalls, recv |-> DupRecv])

(* The SOL packet the console read in the last step arrives once more *)
RecvSolAgain ==
    /\ console.t = "console"
    /\ laststep = "RecvSolData"
    /\ lastpkt.t = "packet"
    /\ Receive(lastpkt, "RecvSolAgain")

NextDup ==
    \/ RecvSolData
    \/ RecvSolAgain
    \/ CallSendData

SpecDup == InitDup /\ [][NextDup]_vars

(* The places of the packets the step put on the wire *)
SentNow == (Len(wire) + 1)..Len(wire')

(* An acknowledgement of the console: no sequence number of its own and no
   data *)
IsSolAck(pkt) ==
    /\ pkt.ptype = PT_sol
    /\ pkt.payload.seq = 0
    /\ pkt.payload.data = <<>>

(* C40: an SOL packet read a second time has no effect beyond a repeated
   acknowledgement: the console stays as it is, the iohandler receives
   nothing, and nothing but an acknowledgement is sent. *)
DuplicateOnlyAcked ==
    [][laststep' = "RecvSolAgain"
       => /\ console' = console
          /\ \A i \in 1..Len(events') :
                events'[i].e \notin {"out_data", "out_info", "out_error"}
          /\ \A i \in SentNow : IsSolAck(wire'[i])]_vars

(* The step sent nothing but acknowledgements and repetitions of the packet
   in flight, under the sequence number it was sent with *)
NothingNewSent ==
    \A i \in SentNow :
        \/ IsSolAck(wire'[i])
        \/ /\ wire'[i].ptype = PT_sol
           /\ console.awaitingack
           /\ wire'[i].payload = console.lastpayload

(* C40: an SOL packet read a second time makes the console send nothing
   but acknowledgements and repetitions of the packet in flight: nothing
   is put back on pendingoutput or taken from it, the sequence number of
   the console stays, and the iohandler receives no data. *)
DuplicateSendsNothingNew ==
    [][laststep' = "RecvSolAgain"
       => /\ console'.pendingoutput = console.pendingoutput
          /\ console'.myseq = console.myseq
          /\ console'.lastpayload = console.lastpayload
          /\ \A i \in 1..Len(events') : events'[i].e # "out_data"
          /\ NothingNewSent]_vars

---------------------------------------------------------------------------
(* A negative acknowledgement of the packet in flight was read twice: the
   first made the console send the rest of the packet under the next
   sequence number, the second made it send that packet again *)
NackReadTwice ==
    /\ laststep = "RecvSolAgain"
    /\ lastpkt.t = "packet"
    /\ Nacked(lastpkt.payload)
    /\ lastpkt.payload.ack # 0
    /\ console.awaitingack
    /\ console.myseq = NextSeq(lastpkt.payload.ack)
    /\ console.lastpayload.data # <<>>
    /\ Len(wire) >= 2
    /\ wire[Len(wire)].payload = console.lastpayload
    /\ wire[Len(wire) - 1].payload = console.lastpayload

====
